---- MODULE Spec2Model ----
(***************************************************************************)
(* A model of the top-down PEG interpreter of bootpeg (package             *)
(* bootpeg.apegs): the clause algebra, the matcher closures built by       *)
(* match_clause, the per-invocation memo with the seed-and-grow loop of    *)
(* Reference, and the Parser facade (construction, __call__, unpack and    *)
(* report).                                                                *)
(*                                                                         *)
(* The recursive descent of the Python code is modelled as an explicit     *)
(* call stack per invocation: a matcher closure that calls a sub-matcher   *)
(* pushes a frame, a return or a raise pops one.  One step of the model    *)
(* runs a matcher from one call or return to the next.                     *)
(***************************************************************************)
EXTENDS Integers, Sequences, FiniteSets

\* ------------------------------------------------------------------------
\* Bounds of the model
\* ------------------------------------------------------------------------

\* Longest input handed to a parser: the inputs are the prefixes, up to this
\* length, of the sample texts of each grammar.
MaxLen == 5

\* Number of invocations a single caller performs one after the other.
MaxCalls == 2

\* ------------------------------------------------------------------------
\* The domain: texts are sequences of one-character strings
\* ------------------------------------------------------------------------

Min(a, b) == IF a <= b THEN a ELSE b

\* Python's of[lo:hi] for 0 <= lo: the slice is clamped to the text.
Slice(of, lo, hi) == SubSeq(of, lo + 1, Min(hi, Len(of)))

\* The text written as a string literal, as a sequence of characters.
Chars(s) == [i \in 1..Len(s) |-> SubSeq(s, i, i)]

\* The characters of the grammars and inputs (the line feed and the printable
\* ASCII characters but the grave accent), in code point order.
Alphabet ==
    <<"\n", " ", "!", "\"", "#", "$", "%", "&", "'", "(", ")", "*", "+", ",",
      "-", ".", "/", "0", "1", "2", "3", "4", "5", "6", "7", "8", "9", ":",
      ";", "<", "=", ">", "?", "@", "A", "B", "C", "D", "E", "F", "G", "H",
      "I", "J", "K", "L", "M", "N", "O", "P", "Q", "R", "S", "T", "U", "V",
      "W", "X", "Y", "Z", "[", "\\", "]", "^", "_", "a", "b", "c", "d",
      "e", "f", "g", "h", "i", "j", "k", "l", "m", "n", "o", "p", "q", "r",
      "s", "t", "u", "v", "w", "x", "y", "z", "{", "|", "}", "~">>

Ord(ch) == CHOOSE i \in 1..Len(Alphabet) : Alphabet[i] = ch

\* Python's lexicographic a < b on str.
RECURSIVE StrLess(_, _)
StrLess(a, b) ==
    IF b = <<>> THEN FALSE
    ELSE IF a = <<>> THEN TRUE
    ELSE IF Ord(Head(a)) < Ord(Head(b)) THEN TRUE
    ELSE IF Ord(Head(a)) > Ord(Head(b)) THEN FALSE
    ELSE StrLess(Tail(a), Tail(b))

StrLeq(a, b) == a = b \/ StrLess(a, b)

\* ------------------------------------------------------------------------
\* Python values handled by actions: str, tuple, bool and int
\* ------------------------------------------------------------------------

Str(s) == [k |-> "str", s |-> s, c |-> <<>>]
Tup(c) == [k |-> "tuple", s |-> <<>>, c |-> c]
Bool(b) == [k |-> "bool", b |-> b]
Num(n) == [k |-> "int", n |-> n]

\* ------------------------------------------------------------------------
\* Clauses (bootpeg/apegs/clauses.py)
\* ------------------------------------------------------------------------

Value(value) == [type |-> "Value", value |-> value]

\* Mutant: the bounds are stored in the order of the arguments.
RangeUnordered(lower, upper) ==
    IF Len(lower) # Len(upper) THEN [type |-> "ValueError"]
    ELSE [type |-> "Range", lower |-> lower, upper |-> upper]

\* Range.__init__ orders the bounds; bounds of unequal length are rejected
\* (ValueError), modelled as a clause of type "ValueError".
Range(lower, upper) ==
    IF Len(lower) # Len(upper) THEN [type |-> "ValueError"]
    ELSE IF StrLess(lower, upper)
         THEN [type |-> "Range", lower |-> lower, upper |-> upper]
         ELSE [type |-> "Range", lower |-> upper, upper |-> lower]

Empty == [type |-> "Empty"]
Any(length) == [type |-> "Any", length |-> length]
Sequence(sub_clauses) == [type |-> "Sequence", sub_clauses |-> sub_clauses]
Entail(sub_clauses) == [type |-> "Entail", sub_clauses |-> sub_clauses]
Choice(sub_clauses) == [type |-> "Choice", sub_clauses |-> sub_clauses]
Repeat(sub_clause) == [type |-> "Repeat", sub_clause |-> sub_clause]
Not(sub_clause) == [type |-> "Not", sub_clause |-> sub_clause]
And(sub_clause) == [type |-> "And", sub_clause |-> sub_clause]
Capture(sub_clause, name, variadic) ==
    [type |-> "Capture", sub_clause |-> sub_clause, name |-> name,
     variadic |-> variadic]
Transform(sub_clause, action) ==
    [type |-> "Transform", sub_clause |-> sub_clause, action |-> action]
Reference(name) == [type |-> "Reference", name |-> name]
Rule(name, sub_clause) == [name |-> name, sub_clause |-> sub_clause]

\* Grammar(*rules) (bootpeg/apegs/front.py)
Grammar(rules) == [type |-> "Grammar", rules |-> rules]

\* The action of a Transform is a Python expression over the captures.  The
\* expressions the grammars below use: a tuple display of names "(l, r)", a
\* single name "a", a literal "'x'", and an expression that raises ("1/0").
ActTuple(names) == [expr |-> "tuple", names |-> names, lit |-> Str(<<>>)]
ActName(name) == [expr |-> "name", names |-> <<name>>, lit |-> Str(<<>>)]
ActLiteral(s) == [expr |-> "literal", names |-> <<>>, lit |-> Str(s)]
ActRaise == [expr |-> "raise", names |-> <<>>, lit |-> Str(<<>>)]

\* An action given by its Python source, as the hand-built parser and the
\* grammars it reads give it.
ActSource(text) == [expr |-> "source", names |-> <<>>, lit |-> Str(text)]

\* ------------------------------------------------------------------------
\* Matches and failures (bootpeg/apegs/interpret.py)
\* ------------------------------------------------------------------------

\* Python's None: the memo sentinel, and the absent __cause__ of an exception.
None == [kind |-> "None"]

Match(at, length, results, captures) ==
    [kind |-> "Match", at |-> at, length |-> length, results |-> results,
     captures |-> captures]

MatchEnd(match) == match.at + match.length

\* Match.__add__ asserts that the matches are adjacent.
Adjacent(self, other) == MatchEnd(self) = other.at

MatchAdd(self, other) ==
    Match(self.at, self.length + other.length,
          self.results \o other.results, self.captures \o other.captures)

MatchFailure(at, clause, cause) ==
    [kind |-> "MatchFailure", at |-> at, clause |-> clause, cause |-> cause]

FatalMatchFailure(at, clause, cause) ==
    [kind |-> "FatalMatchFailure", at |-> at, clause |-> clause, cause |-> cause]

\* Any other Python exception: the one an action raises, the KeyError of an
\* unbound rule name, the AssertionError of Match.__add__.
PyError(name) == [kind |-> "PyError", name |-> name]

IsMatchFailure(x) == x.kind \in {"MatchFailure", "FatalMatchFailure"}

\* ------------------------------------------------------------------------
\* The capture signature of a clause and the binding of actions
\* ------------------------------------------------------------------------

\* discover_captures: the names a clause binds, or raised = TRUE where the
\* code executes its raise statement (the alternatives of a Choice disagree).
RECURSIVE discover_captures(_)
discover_captures(clause) ==
    IF clause.type \in {"Sequence", "Entail"} THEN
        LET subs == {discover_captures(clause.sub_clauses[i]) :
                        i \in 1..Len(clause.sub_clauses)}
        IN  [raised |-> \E r \in subs : r.raised,
             names |-> UNION {r.names : r \in subs}]
    ELSE IF clause.type = "Choice" THEN
        LET subs == [i \in 1..Len(clause.sub_clauses) |->
                        discover_captures(clause.sub_clauses[i])]
        IN  [raised |-> \/ \E i \in DOMAIN subs : subs[i].raised
                        \/ \E i \in DOMAIN subs : subs[i].names # subs[1].names,
             names |-> subs[1].names]
    ELSE IF clause.type = "Repeat" THEN discover_captures(clause.sub_clause)
    ELSE IF clause.type = "Capture" THEN [raised |-> FALSE, names |-> {clause.name}]
    ELSE [raised |-> FALSE, names |-> {}]

\* match_clause compiles a clause and its sub-clauses; the matcher of a
\* Transform calls py_transform, which calls discover_captures on the child
\* of the Transform.  TRUE iff the compilation raises.
RECURSIVE match_clause_raises(_)
match_clause_raises(clause) ==
    IF clause.type \in {"Sequence", "Entail", "Choice"} THEN
        \E i \in 1..Len(clause.sub_clauses) :
            match_clause_raises(clause.sub_clauses[i])
    ELSE IF clause.type \in {"Repeat", "Not", "And", "Capture"} THEN
        match_clause_raises(clause.sub_clause)
    ELSE IF clause.type = "Transform" THEN
        \/ match_clause_raises(clause.sub_clause)
        \/ discover_captures(clause.sub_clause).raised
    ELSE FALSE

\* Mutant: of several captures of one name the first one wins.
CaptureDictFirst(captures) ==
    [n \in {captures[i][1] : i \in DOMAIN captures} |->
        LET first == CHOOSE i \in DOMAIN captures :
                         /\ captures[i][1] = n
                         /\ \A j \in DOMAIN captures : captures[j][1] = n => j >= i
        IN  captures[first][2]]

\* dict(match.captures): of several captures of one name the last one wins.
CaptureDict(captures) ==
    [n \in {captures[i][1] : i \in DOMAIN captures} |->
        LET last == CHOOSE i \in DOMAIN captures :
                        /\ captures[i][1] = n
                        /\ \A j \in DOMAIN captures : captures[j][1] = n => j <= i
        IN  captures[last][2]]

\* ------------------------------------------------------------------------
\* Actions given as Python source (bootpeg/apegs/interpret.py, py_transform)
\* ------------------------------------------------------------------------

\* The syntax tree of a Python expression: a name, a constant, a call of a
\* name with positional arguments (an argument may be starred), and the
\* slice x[1:-1].
PyName(id) == [op |-> "name", id |-> id]
PyConst(value) == [op |-> "const", value |-> value]
PyStarred(arg) == [op |-> "starred", arg |-> arg]
PySlice(arg) == [op |-> "slice", arg |-> arg]
PyCall(func, args) == [op |-> "call", func |-> func, args |-> args]

\* The expressions that occur as actions, each with its syntax tree.
PyExpressions ==
    <<[source |-> Chars("Grammar(*rules)"),
       tree |-> PyCall("Grammar", <<PyStarred(PyName(Chars("rules")))>>)],
      [source |-> Chars("body"),
       tree |-> PyName(Chars("body"))],
      [source |-> Chars("Transform(expr, action)"),
       tree |-> PyCall("Transform", <<PyName(Chars("expr")), PyName(Chars("action"))>>)],
      [source |-> Chars("Choice(first, otherwise)"),
       tree |-> PyCall("Choice", <<PyName(Chars("first")), PyName(Chars("otherwise"))>>)],
      [source |-> Chars("Rule(name, body)"),
       tree |-> PyCall("Rule", <<PyName(Chars("name")), PyName(Chars("body"))>>)],
      [source |-> Chars("Empty()"),
       tree |-> PyCall("Empty", <<>>)],
      [source |-> Chars("Any(1)"),
       tree |-> PyCall("Any", <<PyConst(Num(1))>>)],
      [source |-> Chars("Value('\\n')"),
       tree |-> PyCall("Value", <<PyConst(Str(Chars("\n")))>>)],
      [source |-> Chars("Range(lower[1:-1], upper[1:-1])"),
       tree |-> PyCall("Range", <<PySlice(PyName(Chars("lower"))), PySlice(PyName(Chars("upper")))>>)],
      [source |-> Chars("Value(literal[1:-1])"),
       tree |-> PyCall("Value", <<PySlice(PyName(Chars("literal")))>>)],
      [source |-> Chars("Reference(name)"),
       tree |-> PyCall("Reference", <<PyName(Chars("name"))>>)],
      [source |-> Chars("Not(expr)"),
       tree |-> PyCall("Not", <<PyName(Chars("expr"))>>)],
      [source |-> Chars("Choice(expr, Empty())"),
       tree |-> PyCall("Choice", <<PyName(Chars("expr")), PyCall("Empty", <<>>)>>)],
      [source |-> Chars("Repeat(expr)"),
       tree |-> PyCall("Repeat", <<PyName(Chars("expr"))>>)],
      [source |-> Chars("Choice(Repeat(expr), Empty())"),
       tree |-> PyCall("Choice", <<PyCall("Repeat", <<PyName(Chars("expr"))>>), PyCall("Empty", <<>>)>>)],
      [source |-> Chars("Capture(expr, name, variadic)"),
       tree |-> PyCall("Capture", <<PyName(Chars("expr")), PyName(Chars("name")), PyName(Chars("variadic"))>>)],
      [source |-> Chars("True"),
       tree |-> PyConst(Bool(TRUE))],
      [source |-> Chars("False"),
       tree |-> PyConst(Bool(FALSE))],
      [source |-> Chars("Sequence(head, tail)"),
       tree |-> PyCall("Sequence", <<PyName(Chars("head")), PyName(Chars("tail"))>>)],
      [source |-> Chars("Sequence(head, Entail(tail))"),
       tree |-> PyCall("Sequence", <<PyName(Chars("head")), PyCall("Entail", <<PyName(Chars("tail"))>>)>>)],
      [source |-> Chars("Entail(seq)"),
       tree |-> PyCall("Entail", <<PyName(Chars("seq"))>>)],
      [source |-> Chars("Grammar(*r)"),
       tree |-> PyCall("Grammar", <<PyStarred(PyName(Chars("r")))>>)],
      [source |-> Chars("Rule(n, b)"),
       tree |-> PyCall("Rule", <<PyName(Chars("n")), PyName(Chars("b"))>>)],
      [source |-> Chars("Choice(f, o)"),
       tree |-> PyCall("Choice", <<PyName(Chars("f")), PyName(Chars("o"))>>)],
      [source |-> Chars("Transform(e, a)"),
       tree |-> PyCall("Transform", <<PyName(Chars("e")), PyName(Chars("a"))>>)],
      [source |-> Chars("b"),
       tree |-> PyName(Chars("b"))],
      [source |-> Chars("Sequence(h, t)"),
       tree |-> PyCall("Sequence", <<PyName(Chars("h")), PyName(Chars("t"))>>)],
      [source |-> Chars("Capture(e, n, True)"),
       tree |-> PyCall("Capture", <<PyName(Chars("e")), PyName(Chars("n")), PyConst(Bool(TRUE))>>)],
      [source |-> Chars("Capture(e, n, False)"),
       tree |-> PyCall("Capture", <<PyName(Chars("e")), PyName(Chars("n")), PyConst(Bool(FALSE))>>)],
      [source |-> Chars("Repeat(e)"),
       tree |-> PyCall("Repeat", <<PyName(Chars("e"))>>)],
      [source |-> Chars("Not(e)"),
       tree |-> PyCall("Not", <<PyName(Chars("e"))>>)],
      [source |-> Chars("Range(l[1:-1], u[1:-1])"),
       tree |-> PyCall("Range", <<PySlice(PyName(Chars("l"))), PySlice(PyName(Chars("u")))>>)],
      [source |-> Chars("Value(l[1:-1])"),
       tree |-> PyCall("Value", <<PySlice(PyName(Chars("l")))>>)],
      [source |-> Chars("Reference(n)"),
       tree |-> PyCall("Reference", <<PyName(Chars("n"))>>)]>>

PyWhitespace == {" ", "\n"}

\* action.strip()
RECURSIVE py_strip(_)
py_strip(s) ==
    IF s = <<>> THEN s
    ELSE IF Head(s) \in PyWhitespace THEN py_strip(Tail(s))
    ELSE IF s[Len(s)] \in PyWhitespace THEN py_strip(SubSeq(s, 1, Len(s) - 1))
    ELSE s

\* The body of the lambda py_transform compiles from the text of an action.
py_compile(action) ==
    LET src == py_strip(action)
    IN  IF \E i \in DOMAIN PyExpressions : PyExpressions[i].source = src
            THEN PyExpressions[CHOOSE i \in DOMAIN PyExpressions :
                                   PyExpressions[i].source = src].tree
            ELSE [op |-> "unknown"]

PyReturn(value) == [raised |-> FALSE, error |-> "", value |-> value]
PyRaise(error) == [raised |-> TRUE, error |-> error, value |-> Str(<<>>)]

\* Mutant: the Capture an action constructs is never variadic.
PyApplyNeverVariadic(func, args) ==
    IF func = "Value" THEN PyReturn(Value(args[1].s))
    ELSE IF func = "Range" THEN
        LET clause == Range(args[1].s, args[2].s)
        IN  IF clause.type = "ValueError" THEN PyRaise("ValueError")
            ELSE PyReturn(clause)
    ELSE IF func = "Any" THEN PyReturn(Any(args[1].n))
    ELSE IF func = "Empty" THEN PyReturn(Empty)
    ELSE IF func = "Sequence" THEN PyReturn(Sequence(args))
    ELSE IF func = "Choice" THEN PyReturn(Choice(args))
    ELSE IF func = "Entail" THEN PyReturn(Entail(args))
    ELSE IF func = "Repeat" THEN PyReturn(Repeat(args[1]))
    ELSE IF func = "And" THEN PyReturn(And(args[1]))
    ELSE IF func = "Not" THEN PyReturn(Not(args[1]))
    ELSE IF func = "Capture" THEN PyReturn(Capture(args[1], args[2].s, FALSE))
    ELSE IF func = "Transform" THEN PyReturn(Transform(args[1], ActSource(args[2].s)))
    ELSE IF func = "Reference" THEN PyReturn(Reference(args[1].s))
    ELSE IF func = "Rule" THEN PyReturn(Rule(args[1].s, args[2]))
    ELSE IF func = "Grammar" THEN PyReturn(Grammar(args))
    ELSE PyRaise("NameError")

\* The call of a global of the lambda: the globals are the keyword arguments
\* of the Parser, here apegs_actions (bootpeg/apegs/boot.py), the classes of
\* the clauses, Rule and Grammar.
PyApply(func, args) ==
    IF func = "Value" THEN PyReturn(Value(args[1].s))
    ELSE IF func = "Range" THEN
        LET clause == Range(args[1].s, args[2].s)
        IN  IF clause.type = "ValueError" THEN PyRaise("ValueError")
            ELSE PyReturn(clause)
    ELSE IF func = "Any" THEN PyReturn(Any(args[1].n))
    ELSE IF func = "Empty" THEN PyReturn(Empty)
    ELSE IF func = "Sequence" THEN PyReturn(Sequence(args))
    ELSE IF func = "Choice" THEN PyReturn(Choice(args))
    ELSE IF func = "Entail" THEN PyReturn(Entail(args))
    ELSE IF func = "Repeat" THEN PyReturn(Repeat(args[1]))
    ELSE IF func = "And" THEN PyReturn(And(args[1]))
    ELSE IF func = "Not" THEN PyReturn(Not(args[1]))
    ELSE IF func = "Capture" THEN PyReturn(Capture(args[1], args[2].s, args[3].b))
    ELSE IF func = "Transform" THEN PyReturn(Transform(args[1], ActSource(args[2].s)))
    ELSE IF func = "Reference" THEN PyReturn(Reference(args[1].s))
    ELSE IF func = "Rule" THEN PyReturn(Rule(args[1].s, args[2]))
    ELSE IF func = "Grammar" THEN PyReturn(Grammar(args))
    ELSE PyRaise("NameError")

\* The evaluation of an expression with the captures bound to its free names.
RECURSIVE PyEval(_, _)
RECURSIVE PyArguments(_, _)
PyArguments(args, env) ==
    IF args = <<>> THEN PyReturn(<<>>)
    ELSE LET starred == Head(args).op = "starred"
             first == PyEval(IF starred THEN Head(args).arg ELSE Head(args), env)
             rest == PyArguments(Tail(args), env)
         IN  IF first.raised THEN first
             ELSE IF rest.raised THEN rest
             ELSE PyReturn((IF starred THEN first.value.c ELSE <<first.value>>)
                           \o rest.value)

PyEval(tree, env) ==
    IF tree.op = "const" THEN PyReturn(tree.value)
    ELSE IF tree.op = "name" THEN
        IF tree.id \in DOMAIN env THEN PyReturn(env[tree.id]) ELSE PyRaise("NameError")
    ELSE IF tree.op = "slice" THEN
        LET arg == PyEval(tree.arg, env)
        IN  IF arg.raised THEN arg
            ELSE PyReturn(Str(SubSeq(arg.value.s, 2, Len(arg.value.s) - 1)))
    ELSE IF tree.op = "call" THEN
        LET args == PyArguments(tree.args, env)
        IN  IF args.raised THEN args ELSE PyApply(tree.func, args.value)
    ELSE PyRaise("SyntaxError")

\* py_call(**dict(match.captures)) for the lambda py_transform builds: its
\* parameters are the capture signature of the child, its body the action.
\* A call whose keywords are not exactly the parameters raises TypeError, a
\* body that uses a name that is no parameter raises NameError.
py_call(clause, captures) ==
    LET params == discover_captures(clause.sub_clause).names
        kwargs == CaptureDict(captures)
        action == clause.action
        nil == Str(<<>>)
    IN  IF DOMAIN kwargs # params
            THEN [raised |-> TRUE, error |-> "TypeError", value |-> nil]
        ELSE IF action.expr = "raise"
            THEN [raised |-> TRUE, error |-> "ZeroDivisionError", value |-> nil]
        ELSE IF \E i \in DOMAIN action.names : action.names[i] \notin params
            THEN [raised |-> TRUE, error |-> "NameError", value |-> nil]
        ELSE IF action.expr = "tuple"
            THEN [raised |-> FALSE, error |-> "",
                  value |-> Tup([i \in DOMAIN action.names |-> kwargs[action.names[i]]])]
        ELSE IF action.expr = "name"
            THEN [raised |-> FALSE, error |-> "", value |-> kwargs[action.names[1]]]
        ELSE IF action.expr = "source"
            THEN PyEval(py_compile(action.lit.s), kwargs)
        ELSE [raised |-> FALSE, error |-> "", value |-> action.lit]

\* ------------------------------------------------------------------------
\* The Parser facade (bootpeg/apegs/front.py)
\* ------------------------------------------------------------------------

NoMessage == [what |-> "", clause |-> Empty]

Outcome(status, value, index, path, message) ==
    [status |-> status, value |-> value, index |-> index, path |-> path,
     message |-> message]

NoOutcome == Outcome("", Str(<<>>), 0, <<>>, NoMessage)

\* Mutant: the first result is returned whatever else the match holds.
unpack_first(match) ==
    IF match.results = <<>>
        THEN Outcome("ValueError", Str(<<>>), 0, <<>>, NoMessage)
        ELSE Outcome("ok", match.results[1], 0, <<>>, NoMessage)

\* unpack: the single result of the top-level match, or a ValueError.
unpack(match) ==
    IF match.captures # <<>> THEN Outcome("ValueError", Str(<<>>), 0, <<>>, NoMessage)
    ELSE IF Len(match.results) > 1
        THEN Outcome("ValueError", Str(<<>>), 0, <<>>, NoMessage)
    ELSE IF match.results = <<>>
        THEN Outcome("ValueError", Str(<<>>), 0, <<>>, NoMessage)
    ELSE Outcome("ok", match.results[1], 0, <<>>, NoMessage)

\* walk_failures: the failure and its chain of causes, up to and including
\* the first cause that is no match failure.
RECURSIVE walk_failures(_)
walk_failures(err) ==
    IF ~IsMatchFailure(err) THEN <<err>>
    ELSE IF err.cause.kind = "None" THEN <<err>>
    ELSE <<err>> \o walk_failures(err.cause)

\* The names of the Reference clauses of a sequence of failures, in order.
RECURSIVE reference_path(_)
reference_path(failures) ==
    IF failures = <<>> THEN <<>>
    ELSE (IF Head(failures).clause.type = "Reference"
            THEN <<Head(failures).clause.name>> ELSE <<>>)
         \o reference_path(Tail(failures))

\* Mutant: the failure handed to report is reported, not the end of its chain.
report_outermost(err) ==
    Outcome("ParseFailure", Str(<<>>), err.at,
            reference_path(SelectSeq(walk_failures(err), IsMatchFailure)),
            [what |-> "expected", clause |-> err.clause])

\* report: the ParseFailure raised for a failure of the entry matcher.
report(err) ==
    LET failures == walk_failures(err)
        n == Len(failures)
        has_cause == ~IsMatchFailure(failures[n])
        failure == IF has_cause THEN failures[n - 1] ELSE failures[n]
        enclosing == SubSeq(failures, 1, IF has_cause THEN n - 2 ELSE n - 1)
    IN  Outcome("ParseFailure", Str(<<>>), failure.at, reference_path(enclosing),
                [what |-> IF has_cause THEN "transforming" ELSE "expected",
                 clause |-> failure.clause])

\* Parser.__init__: _match_rules maps each rule name to the matcher of its
\* body; of several rules of one name the last one wins.
match_rules(rules) ==
    [n \in {rules[i].name : i \in DOMAIN rules} |->
        LET last == CHOOSE i \in DOMAIN rules :
                        /\ rules[i].name = n
                        /\ \A j \in DOMAIN rules : rules[j].name = n => j <= i
        IN  rules[last].sub_clause]

\* The clauses of the rules are constructed before Parser.__init__ runs:
\* TRUE iff the constructor of a clause of the tree has raised (the ValueError
\* of Range.__init__), so that no rule and no parser comes to exist.
RECURSIVE ClauseInitRaises(_)
ClauseInitRaises(clause) ==
    IF clause.type = "ValueError" THEN TRUE
    ELSE IF clause.type \in {"Sequence", "Entail", "Choice"} THEN
        \E i \in 1..Len(clause.sub_clauses) : ClauseInitRaises(clause.sub_clauses[i])
    ELSE IF clause.type \in {"Repeat", "Not", "And", "Capture", "Transform"} THEN
        ClauseInitRaises(clause.sub_clause)
    ELSE FALSE

\* Parser.__init__ raises iff compiling the body of some rule raises.
ParserInitRaises(rules) ==
    \E i \in DOMAIN rules : match_clause_raises(rules[i].sub_clause)

\* ------------------------------------------------------------------------
\* The grammars and inputs the model is run on
\* ------------------------------------------------------------------------

\* top: "a" ~ "b" | "a" "c"
EntailRules ==
    <<Rule("top", Choice(<<Sequence(<<Value(<<"a">>), Entail(<<Value(<<"b">>)>>)>>),
                           Sequence(<<Value(<<"a">>), Value(<<"c">>)>>)>>))>>

\* E: l=E "+" r=E {(l, r)} | "x" {'x'}
LeftRecRules ==
    <<Rule("E", Choice(<<
        Transform(Sequence(<<Capture(Reference("E"), "l", FALSE), Value(<<"+">>),
                             Capture(Reference("E"), "r", FALSE)>>),
                  ActTuple(<<"l", "r">>)),
        Transform(Value(<<"x">>), ActLiteral(<<"x">>))>>))>>

\* A: b=B "a" {(b, 'a')} | "x" {'x'}      B: a=A "b" {(a, 'b')}
IndirectRules ==
    <<Rule("A", Choice(<<
        Transform(Sequence(<<Capture(Reference("B"), "b", FALSE),
                             Capture(Value(<<"a">>), "t", FALSE)>>),
                  ActTuple(<<"b", "t">>)),
        Transform(Value(<<"x">>), ActLiteral(<<"x">>))>>)),
      Rule("B", Transform(Sequence(<<Capture(Reference("A"), "a", FALSE),
                                     Capture(Value(<<"b">>), "t", FALSE)>>),
                          ActTuple(<<"a", "t">>)))>>

\* top: a=(.) !. {a}
NotAnyRules ==
    <<Rule("top", Transform(Sequence(<<Capture(Any(1), "a", FALSE), Not(Any(1))>>),
                            ActName("a")))>>

\* top: "n" !f . | "&" &f . | *x=(f+) | ""
\* f: "a" ~ "b" | "c" {1/0} | "d"
FatalRules ==
    <<Rule("top", Choice(<<
        Sequence(<<Value(<<"n">>), Not(Reference("f")), Any(1)>>),
        Sequence(<<Value(<<"&">>), And(Reference("f")), Any(1)>>),
        Capture(Repeat(Reference("f")), "x", TRUE),
        Empty>>)),
      Rule("f", Choice(<<
        Sequence(<<Value(<<"a">>), Entail(<<Value(<<"b">>)>>)>>),
        Transform(Value(<<"c">>), ActRaise),
        Value(<<"d">>)>>))>>

\* L: L ~ "!" | "x"
GrowRules ==
    <<Rule("L", Choice(<<Sequence(<<Reference("L"), Entail(<<Value(<<"!">>)>>)>>),
                         Value(<<"x">>)>>))>>

\* top: "0" | "1" {'1'} | ("2" {'2'}) (. {'x'}) | c="c" | a="a" ("1" {'1'})
UnpackRules ==
    <<Rule("top", Choice(<<
        Value(<<"0">>),
        Transform(Value(<<"1">>), ActLiteral(<<"1">>)),
        Sequence(<<Transform(Value(<<"2">>), ActLiteral(<<"2">>)),
                   Transform(Any(1), ActLiteral(<<"x">>))>>),
        Capture(Value(<<"c">>), "c", FALSE),
        Sequence(<<Capture(Value(<<"a">>), "a", FALSE),
                   Transform(Value(<<"1">>), ActLiteral(<<"1">>))>>)>>))>>

\* top: &('c' - 'a') s=(('a' - 'c')+) {s}
RangeRules ==
    <<Rule("top", Transform(
        Sequence(<<And(Range(<<"c">>, <<"a">>)),
                   Capture(Repeat(Range(<<"a">>, <<"c">>)), "s", FALSE)>>),
        ActName("s")))>>

\* top: a=(.*) {(a, a)}
MultiuseRules ==
    <<Rule("top", Transform(Capture(Choice(<<Repeat(Any(1)), Empty>>), "a", FALSE),
                            ActTuple(<<"a", "a">>)))>>

\* A Choice whose alternatives bind different capture names ...
Disagree ==
    Choice(<<Capture(Value(<<"a">>), "a", FALSE), Capture(Value(<<"b">>), "b", FALSE)>>)

\* ... as the child of a Transform, inside a Repeat below a Transform,
DisagreeTransformRules == <<Rule("top", Transform(Disagree, ActName("a")))>>
DisagreeRepeatRules == <<Rule("top", Transform(Repeat(Disagree), ActName("a")))>>
\* as the whole body of a rule, below a Not, below a Capture, and in a rule
\* that a Transform refers to.
DisagreeBareRules == <<Rule("top", Disagree)>>
DisagreeNotRules ==
    <<Rule("top", Transform(Sequence(<<Not(Disagree), Capture(Any(1), "a", FALSE)>>),
                            ActName("a")))>>
DisagreeCaptureRules ==
    <<Rule("top", Transform(Capture(Disagree, "c", TRUE), ActName("c")))>>
DisagreeReferenceRules ==
    <<Rule("top", Transform(Reference("r"), ActLiteral(<<"x">>))), Rule("r", Disagree)>>

\* top: "a" {m}: the action uses a name its clause does not capture.
MissingCaptureRules == <<Rule("top", Transform(Value(<<"a">>), ActName("m")))>>

\* top: e="a" {'x'}: the clause captures a name the action does not use.
ExtraCaptureRules ==
    <<Rule("top", Transform(Capture(Value(<<"a">>), "e", FALSE), ActLiteral(<<"x">>)))>>

\* top: "a" missing | "b": no rule is named missing.
UnboundRules ==
    <<Rule("top", Choice(<<Sequence(<<Value(<<"a">>), Reference("missing")>>),
                           Value(<<"b">>)>>))>>

\* top: (!"a")+ (""+) ("b" | "")+ . {'r'}: repetitions of clauses that match
\* without consuming input.
RepeatEmptyRules ==
    <<Rule("top", Transform(
        Sequence(<<Repeat(Not(Value(<<"a">>))), Repeat(Empty),
                   Repeat(Choice(<<Value(<<"b">>), Empty>>)), Any(1)>>),
        ActLiteral(<<"r">>)))>>

\* top: "0" *v=(p p) {v} | n=(p p) {n} | p p {'f'} | "!" !(n=(p p)) . . {'n'}
\* p: "x" {'x'}
TwoResults == Sequence(<<Reference("p"), Reference("p")>>)

CaptureRules ==
    <<Rule("top", Choice(<<
        Transform(Sequence(<<Value(<<"0">>), Capture(TwoResults, "v", TRUE)>>), ActName("v")),
        Transform(Capture(TwoResults, "n", FALSE), ActName("n")),
        Transform(TwoResults, ActLiteral(<<"f">>)),
        Transform(Sequence(<<Value(<<"!">>), Not(Capture(TwoResults, "n", FALSE)),
                             Any(1), Any(1)>>),
                  ActLiteral(<<"n">>))>>)),
      Rule("p", Transform(Value(<<"x">>), ActLiteral(<<"x">>)))>>

\* top: a=(..) !. {a}
AnyRules ==
    <<Rule("top", Transform(Sequence(<<Capture(Any(2), "a", FALSE), Not(Any(1))>>),
                            ActName("a")))>>

\* top: !top "x": the body matches while the memo holds the sentinel of top
\* and fails once it holds a match.
NotSelfRules ==
    <<Rule("top", Sequence(<<Not(Reference("top")), Value(<<"x">>)>>))>>

\* top: "r" (a=.)+ {a} | a="x" a=. {a} | "e" ~ a=. a=. {(a, a)}: a name that
\* is captured several times.
DuplicateRules ==
    <<Rule("top", Choice(<<
        Transform(Sequence(<<Value(<<"r">>), Repeat(Capture(Any(1), "a", FALSE))>>),
                  ActName("a")),
        Transform(Sequence(<<Capture(Value(<<"x">>), "a", FALSE),
                             Capture(Any(1), "a", FALSE)>>),
                  ActName("a")),
        Transform(Sequence(<<Value(<<"e">>),
                             Entail(<<Capture(Any(1), "a", FALSE),
                                      Capture(Any(1), "a", FALSE)>>)>>),
                  ActTuple(<<"a", "a">>))>>))>>

\* The grammars top: Range(lower, upper) for every pair of these bounds, with
\* every text of two characters as a sample.
RangeBounds == <<<<"a">>, <<"c">>, <<"a", "c">>, <<"c", "a">>>>

RangeSamples == {<<x, y>> : x \in {"a", "b", "c"}, y \in {"a", "b", "c"}}

RangeFamily ==
    [k \in 1..(Len(RangeBounds) * Len(RangeBounds)) |->
        [lower |-> RangeBounds[((k - 1) \div Len(RangeBounds)) + 1],
         upper |-> RangeBounds[((k - 1) % Len(RangeBounds)) + 1]]]

RangeGrammars ==
    [k \in DOMAIN RangeFamily |->
        [rules |-> <<Rule("top", Range(RangeFamily[k].lower, RangeFamily[k].upper))>>,
         samples |-> RangeSamples]]

\* Each grammar with the sample texts whose prefixes are its inputs.
Grammars ==
    <<[rules |-> EntailRules, samples |-> {<<"a", "c">>, <<"a", "b">>}],
      [rules |-> LeftRecRules, samples |-> {<<"x", "+", "x", "+", "x", "+", "x">>}],
      [rules |-> IndirectRules, samples |-> {<<"x", "b", "a", "b", "a", "b">>}],
      [rules |-> NotAnyRules, samples |-> {<<"b", "b">>}],
      [rules |-> FatalRules,
       samples |-> {<<"n", "a", "c">>, <<"n", "d">>, <<"&", "c">>, <<"&", "d", "d">>,
                    <<"a", "b", "a", "c">>, <<"d", "c">>}],
      [rules |-> GrowRules, samples |-> {<<"x", "!", "x">>}],
      [rules |-> UnpackRules,
       samples |-> {<<"0">>, <<"1">>, <<"2", "x">>, <<"c">>, <<"a", "1">>}],
      [rules |-> RangeRules, samples |-> {<<"a", "b", "d">>, <<"c", "b">>}],
      [rules |-> DisagreeTransformRules, samples |-> {<<"a">>}],
      [rules |-> DisagreeRepeatRules, samples |-> {<<"a">>}],
      [rules |-> DisagreeBareRules, samples |-> {<<"a">>, <<"b">>}],
      [rules |-> DisagreeNotRules, samples |-> {<<"c">>, <<"a">>}],
      [rules |-> DisagreeCaptureRules, samples |-> {<<"a">>}],
      [rules |-> DisagreeReferenceRules, samples |-> {<<"a">>, <<"b">>}],
      [rules |-> MultiuseRules, samples |-> {<<"b", "c">>}],
      [rules |-> MissingCaptureRules, samples |-> {<<"a">>}],
      [rules |-> ExtraCaptureRules, samples |-> {<<"a">>}],
      [rules |-> UnboundRules, samples |-> {<<"a">>, <<"b">>}],
      [rules |-> RepeatEmptyRules, samples |-> {<<"b", "c">>, <<"a">>}],
      [rules |-> CaptureRules,
       samples |-> {<<"0", "x", "x">>, <<"x", "x">>, <<"!", "x", "x">>}],
      [rules |-> AnyRules, samples |-> {<<"b", "c", "d">>}],
      [rules |-> NotSelfRules, samples |-> {<<"x", "x">>}],
      [rules |-> DuplicateRules,
       samples |-> {<<"r", "b", "c">>, <<"x", "y">>, <<"e", "b", "c">>}]>>
    \o RangeGrammars

Inputs(g) ==
    UNION {{SubSeq(s, 1, n) : n \in 0..Min(MaxLen, Len(s))} : s \in Grammars[g].samples}

\* ------------------------------------------------------------------------
\* The hand-built parser of the surface syntax (bootpeg/apegs/boot.py)
\* ------------------------------------------------------------------------

Ref(name) == Reference(Chars(name))
Lit(value) == Value(Chars(value))
Kw(name, clause) == <<Chars(name), clause>>

\* apply(func, **captures): a Transform of the Sequence of the keyword
\* arguments, each a Capture of its name unless the name begins with "_".
apply(func, captures) ==
    Transform(Sequence([i \in 1..Len(captures) |->
                            IF captures[i][1][1] = "_" THEN captures[i][2]
                            ELSE Capture(captures[i][2], captures[i][1], FALSE)]),
              ActSource(Chars(func)))

\* neg(*clauses): any one character at which none of the clauses matches.
neg(clauses) ==
    Sequence([i \in 1..Len(clauses) |-> Not(clauses[i])] \o <<Any(1)>>)

spaces == Choice(<<Lit(" "), Empty>>)

\* string.ascii_letters + "_"
ascii_letters == Chars("abcdefghijklmnopqrstuvwxyzABCDEFGHIJKLMNOPQRSTUVWXYZ")

quoted(quote) ==
    Sequence(<<Value(<<quote>>), Repeat(neg(<<Value(<<quote>>)>>)),
               Entail(<<Value(<<quote>>)>>)>>)

rule_line == Sequence(<<Lit("    "), Ref("rule_choice"), Ref("end_line")>>)

boot_parser ==
    <<Rule(Chars("top"),
           Sequence(<<Transform(Capture(Repeat(Choice(<<Ref("rule"), Ref("end_line")>>)),
                                        Chars("rules"), TRUE),
                                ActSource(Chars("Grammar(*rules)"))),
                      Not(Any(1))>>)),
      Rule(Chars("end_line"),
           Sequence(<<spaces,
                      Choice(<<Sequence(<<Lit("#"), Repeat(neg(<<Lit("\n")>>))>>), Empty>>),
                      Choice(<<Lit("\n"), Not(Any(1))>>)>>)),
      Rule(Chars("identifier"),
           Repeat(Choice([i \in 1..Len(ascii_letters) + 1 |->
                             IF i <= Len(ascii_letters) THEN Value(<<ascii_letters[i]>>)
                             ELSE Lit("_")]))),
      Rule(Chars("literal"), Choice(<<quoted("\""), quoted("'")>>)),
      Rule(Chars("action_body"),
           Repeat(Choice(<<neg(<<Lit("{"), Lit("}")>>),
                           Sequence(<<Lit("{"), Ref("action_body"),
                                      Entail(<<Lit("}")>>)>>)>>))),
      Rule(Chars("action"),
           apply("body", <<Kw("_h", Lit("{")), Kw("body", Ref("action_body")),
                           Kw("_t", Entail(<<Lit("}")>>))>>)),
      Rule(Chars("rule_choice"),
           Choice(<<apply("Transform(expr, action)",
                          <<Kw("_h", Lit("| ")), Kw("expr", Ref("expr")),
                            Kw("_s", spaces), Kw("action", Ref("action"))>>),
                    Sequence(<<Lit("| "), Ref("expr")>>)>>)),
      Rule(Chars("rule_body"),
           Choice(<<apply("Choice(first, otherwise)",
                          <<Kw("first", Ref("rule_body")), Kw("otherwise", rule_line)>>),
                    rule_line>>)),
      Rule(Chars("rule"),
           apply("Rule(name, body)",
                 <<Kw("name", Ref("identifier")),
                   Kw("_", Sequence(<<Lit(":"), Ref("end_line")>>)),
                   Kw("body", Ref("rule_body"))>>)),
      Rule(Chars("atom"),
           Choice(<<Transform(Choice(<<Lit("\"\""), Lit("''")>>), ActSource(Chars("Empty()"))),
                    Transform(Lit("."), ActSource(Chars("Any(1)"))),
                    Transform(Lit("\\n"), ActSource(Chars("Value('\\n')"))),
                    apply("Range(lower[1:-1], upper[1:-1])",
                          <<Kw("lower", Ref("literal")),
                            Kw("_", Sequence(<<spaces, Lit("-"), spaces>>)),
                            Kw("upper", Entail(<<Ref("literal")>>))>>),
                    apply("Value(literal[1:-1])", <<Kw("literal", Ref("literal"))>>),
                    apply("Reference(name)", <<Kw("name", Ref("identifier"))>>)>>)),
      Rule(Chars("prefix"),
           Choice(<<apply("Not(expr)",
                          <<Kw("_", Lit("!")), Kw("expr", Entail(<<Ref("prefix")>>))>>),
                    Sequence(<<Lit("("), spaces,
                               Entail(<<Sequence(<<Ref("expr"), spaces, Lit(")")>>)>>)>>),
                    apply("Choice(expr, Empty())",
                          <<Kw("expr",
                               Sequence(<<Lit("["), spaces,
                                          Entail(<<Sequence(<<Ref("expr"), spaces,
                                                              Lit("]")>>)>>)>>))>>),
                    Ref("atom")>>)),
      Rule(Chars("repeat"),
           Choice(<<apply("Repeat(expr)", <<Kw("expr", Ref("prefix")), Kw("_", Lit("+"))>>),
                    apply("Choice(Repeat(expr), Empty())",
                          <<Kw("expr", Ref("prefix")), Kw("_", Lit("*"))>>),
                    Ref("prefix")>>)),
      Rule(Chars("capture"),
           Choice(<<apply("Capture(expr, name, variadic)",
                          <<Kw("variadic",
                               Choice(<<Transform(Lit("*"), ActSource(Chars("True"))),
                                        Transform(Empty, ActSource(Chars("False")))>>)),
                            Kw("name", Ref("identifier")),
                            Kw("_", Lit("=")),
                            Kw("expr", Entail(<<Ref("repeat")>>))>>),
                    Ref("repeat")>>)),
      Rule(Chars("sequence"),
           Choice(<<apply("Sequence(head, tail)",
                          <<Kw("head", Ref("sequence")), Kw("_", spaces),
                            Kw("tail", Ref("capture"))>>),
                    apply("Sequence(head, Entail(tail))",
                          <<Kw("head", Ref("sequence")),
                            Kw("_", Sequence(<<spaces, Lit("~"), spaces>>)),
                            Kw("tail", Entail(<<Ref("sequence")>>))>>),
                    apply("Entail(seq)",
                          <<Kw("seq", Sequence(<<Lit("~"), spaces,
                                                 Entail(<<Ref("sequence")>>)>>))>>),
                    Ref("capture")>>)),
      Rule(Chars("choice"),
           Choice(<<apply("Choice(first, otherwise)",
                          <<Kw("first", Ref("choice")),
                            Kw("_", Sequence(<<spaces, Lit("|"), spaces>>)),
                            Kw("otherwise", Entail(<<Ref("sequence")>>))>>),
                    Ref("sequence")>>)),
      Rule(Chars("expr"), Ref("choice"))>>

\* The source of the surface syntax: a grammar, written in the surface syntax,
\* of the surface syntax it is written in.
bpeg_source ==
       Chars("top:\n")
    \o Chars("    | *r=rule+ !. { Grammar(*r) }\n")
    \o Chars("rule:\n")
    \o Chars("    | n=name \":\" \\n b=body { Rule(n, b) }\n")
    \o Chars("body:\n")
    \o Chars("    | f=body o=alt { Choice(f, o) }\n")
    \o Chars("    | alt\n")
    \o Chars("alt:\n")
    \o Chars("    | \"    | \" e=seq \" \" a=act \\n { Transform(e, a) }\n")
    \o Chars("    | \"    | \" seq \\n\n")
    \o Chars("act:\n")
    \o Chars("    | \"{\" b=(!\"}\" .)+ \"}\" { b }\n")
    \o Chars("seq:\n")
    \o Chars("    | h=seq \" \" t=cap { Sequence(h, t) }\n")
    \o Chars("    | cap\n")
    \o Chars("cap:\n")
    \o Chars("    | \"*\" n=name \"=\" e=post { Capture(e, n, True) }\n")
    \o Chars("    | n=name \"=\" e=post { Capture(e, n, False) }\n")
    \o Chars("    | post\n")
    \o Chars("post:\n")
    \o Chars("    | e=pre \"+\" { Repeat(e) }\n")
    \o Chars("    | pre\n")
    \o Chars("pre:\n")
    \o Chars("    | \"!\" e=pre { Not(e) }\n")
    \o Chars("    | \"(\" seq \")\"\n")
    \o Chars("    | atom\n")
    \o Chars("atom:\n")
    \o Chars("    | \".\" { Any(1) }\n")
    \o Chars("    | \"\\n\" { Value('\\n') }\n")
    \o Chars("    | l=lit \" - \" u=lit { Range(l[1:-1], u[1:-1]) }\n")
    \o Chars("    | l=lit { Value(l[1:-1]) }\n")
    \o Chars("    | n=name { Reference(n) }\n")
    \o Chars("lit:\n")
    \o Chars("    | '\"' (!'\"' .)+ '\"'\n")
    \o Chars("    | \"'\" (!\"'\" .)+ \"'\"\n")
    \o Chars("name:\n")
    \o Chars("    | (\"a\" - \"z\")+\n")

\* The number of parsers built, one after the other, each from the grammar
\* its predecessor returned for the source; the hand-built parser is the
\* predecessor of the first.
MaxBoot == 2

\* The number of steps an invocation of the bootstrap takes at once.
MaxSteps == 500

\* ------------------------------------------------------------------------
\* The pretty-printer of the surface syntax (bootpeg/grammars/bpeg.py)
\* ------------------------------------------------------------------------

\* precedence[type(clause)]
precedence(type) ==
    CASE type \in {"Value", "Range", "Any", "Empty", "Reference"} -> 0
      [] type \in {"Not", "And"} -> 1
      [] type \in {"Repeat", "Capture"} -> 2
      [] type \in {"Sequence", "Entail"} -> 3
      [] type \in {"Choice", "Transform"} -> 4

\* value in text
PyContains(text, value) == \E i \in DOMAIN text : text[i] = value

\* text.replace(old, new) for a single character old.
RECURSIVE PyReplace(_, _, _)
PyReplace(text, old, new) ==
    IF text = <<>> THEN <<>>
    ELSE (IF Head(text) = old THEN new ELSE <<Head(text)>>)
             \o PyReplace(Tail(text), old, new)

\* repr(text) of a str: in single quotes, or in double quotes if the text
\* holds a single quote and no double quote; the backslash, the quote and
\* the line feed are escaped.
PyRepr(text) ==
    LET quote == IF PyContains(text, "'") /\ ~PyContains(text, "\"")
                     THEN "\"" ELSE "'"
        escaped == PyReplace(PyReplace(PyReplace(text, "\\", <<"\\", "\\">>),
                                       quote, <<"\\", quote>>),
                             "\n", <<"\\", "n">>)
    IN  <<quote>> \o escaped \o <<quote>>

\* sep.join(...) of the str each call returned; the first call that raised
\* ends the join.
RECURSIVE PyJoin(_, _)
PyJoin(sep, returned) ==
    IF returned = <<>> THEN PyReturn(Str(<<>>))
    ELSE IF Head(returned).raised THEN Head(returned)
    ELSE IF Len(returned) = 1 THEN Head(returned)
    ELSE LET rest == PyJoin(sep, Tail(returned))
         IN  IF rest.raised THEN rest
             ELSE PyReturn(Str(Head(returned).value.s \o sep \o rest.value.s))

\* unparse_literal
unparse_literal(clause) ==
    IF clause.value = <<"\n">> THEN Chars("\\n")
    ELSE IF PyContains(clause.value, "\"") THEN
        IF PyContains(clause.value, "'")
            THEN <<"\"">> \o PyReplace(clause.value, "'", <<"\\", "'">>) \o <<"\"">>
            ELSE <<"'">> \o clause.value \o <<"'">>
    ELSE <<"\"">> \o clause.value \o <<"\"">>

\* unparse_range
unparse_range(clause) == PyRepr(clause.lower) \o <<"-">> \o PyRepr(clause.upper)

\* unparse_any
unparse_any(clause) == [i \in 1..clause.length |-> "."]

\* unparse(clause), the function with one implementation for each type of
\* clause, and _wrapped(clause, parent), which puts a sub-clause that binds
\* less tightly than its parent in parentheses.  unparse_capture reads
\* clause.match, an attribute a Capture does not have.
RECURSIVE unparse(_), _wrapped(_, _)
unparse(clause) ==
    LET subs == clause.sub_clauses
        joined(of) == PyJoin(<<" ">>, [i \in DOMAIN of |-> _wrapped(of[i], clause)])
        sub == _wrapped(clause.sub_clause, clause)
        prefixed(prefix, returned) ==
            IF returned.raised THEN returned
            ELSE PyReturn(Str(prefix \o returned.value.s))
    IN  CASE clause.type = "Value" -> PyReturn(Str(unparse_literal(clause)))
          [] clause.type = "Range" -> PyReturn(Str(unparse_range(clause)))
          [] clause.type = "Empty" -> PyReturn(Str(Chars("\"\"")))
          [] clause.type = "Any" -> PyReturn(Str(unparse_any(clause)))
          [] clause.type = "Reference" -> PyReturn(Str(clause.name))
          [] clause.type = "Sequence" -> joined(subs)
          [] clause.type = "Entail" -> prefixed(Chars("~ "), joined(subs))
          [] clause.type = "Choice" ->
                LET alternatives(of) ==
                        PyJoin(Chars(" | "),
                               [i \in DOMAIN of |-> _wrapped(of[i], clause)])
                    optional == alternatives(SubSeq(subs, 1, Len(subs) - 1))
                IN  IF subs[Len(subs)].type = "Empty"
                        THEN IF optional.raised THEN optional
                             ELSE PyReturn(Str(<<"[">> \o optional.value.s \o <<"]">>))
                        ELSE alternatives(subs)
          [] clause.type = "Repeat" ->
                IF sub.raised THEN sub ELSE PyReturn(Str(sub.value.s \o <<"+">>))
          [] clause.type = "Not" -> prefixed(<<"!">>, sub)
          [] clause.type = "And" -> prefixed(<<"&">>, sub)
          [] clause.type = "Capture" -> PyRaise("AttributeError")
          [] clause.type = "Transform" ->
                LET body == unparse(clause.sub_clause)
                IN  IF body.raised THEN body
                    ELSE PyReturn(Str(body.value.s \o Chars(" {")
                                          \o clause.action.lit.s \o Chars("}")))
          [] OTHER -> PyRaise("NotImplementedError")

_wrapped(clause, parent) ==
    LET literal == unparse(clause)
    IN  IF literal.raised THEN literal
        ELSE IF literal.value.s = <<>> THEN PyRaise("IndexError")
        ELSE IF \/ literal.value.s[1] = "["
                \/ precedence(parent.type) >= precedence(clause.type)
            THEN literal
        ELSE PyReturn(Str(<<"(">> \o literal.value.s \o <<")">>))

\* The representative clauses of test_roundtrip.
clauses ==
    <<Empty,
      Any(1),
      Value(Chars("A")), Value(Chars("x")), Value(Chars("ß")), Value(Chars(" ")),
      Sequence(<<Value(Chars("A")), Value(Chars("B")), Value(Chars("A"))>>),
      Sequence(<<Value(Chars(" ")), Value(Chars(" "))>>),
      Choice(<<Choice(<<Value(Chars("a")), Value(Chars("b"))>>), Empty>>),
      Repeat(Value(Chars("x"))),
      Repeat(Sequence(<<Value(Chars("x")), Value(Chars("y")), Value(Chars("z"))>>)),
      Not(Value(Chars("a"))),
      And(Value(Chars("a"))),
      Reference(Chars("some_rule")),
      Range(Chars("a"), Chars("b")),
      Entail(<<Value(Chars("a")), Value(Chars("b"))>>),
      Sequence(<<Value(Chars("head")),
                 Entail(<<Value(Chars("a")), Value(Chars("b"))>>)>>),
      Capture(Value(Chars("expr")), Chars("name"), TRUE),
      Capture(Value(Chars("expr")), Chars("name"), FALSE),
      Transform(Value(Chars("body")), ActSource(Chars("{True}")))>>

\* f"parse_test:\n    | {literal}\n"
roundtrip_source(literal) ==
    Chars("parse_test:\n    | ") \o literal \o Chars("\n")

\* ------------------------------------------------------------------------
\* State
\* ------------------------------------------------------------------------

\* The callers that invoke the one built parser.
Threads == {1, 2}

VARIABLES
    grammar,    \* index of the grammar the parser is constructed from
    parser,     \* "new", "built" after Parser.__init__, or the error it raised
    status,     \* per caller: "idle", or "running" inside Parser.__call__
    source,     \* per caller: the input of the current invocation
    stack,      \* per caller: the frames of the active matcher closures
    ret,        \* per caller: what the last matcher returned or raised
    memo,       \* the memo dict of each invocation
    concurrent, \* per caller: the invocation overlapped with another one
    history     \* per caller: the invocations that ended, in order

vars == <<grammar, parser, status, source, stack, ret, memo, concurrent, history>>

\* The grammars that follow the fixed ones: that of the hand-built parser of
\* the surface syntax and, after it, the grammar each invocation of caller 1
\* returned, in order.
BootParser == Len(Grammars) + 1

\* apegs_actions: the names the actions of the surface syntax are bound to.
apegs_actions ==
    {"Value", "Range", "Any", "Empty", "Sequence", "Choice", "Repeat", "And",
     "Not", "Entail", "Capture", "Transform", "Reference", "Rule", "Grammar",
     "Parser"}

\* Parser.__init__(top, *rules, **actions): the attributes of the parser.
Parser(rules, actions) ==
    [top |-> rules[1].name, rules |-> rules, actions |-> actions]

\* Mutant: the state lists the rules in reverse order.
getstate_reversed(self) ==
    [rules |-> [i \in DOMAIN self.rules |-> self.rules[Len(self.rules) + 1 - i]],
     actions |-> self.actions]

\* Parser.__getstate__
getstate(self) == [rules |-> self.rules, actions |-> self.actions]

\* Parser.__setstate__(state): self.__init__(*state["rules"], **state["actions"])
setstate(state) == Parser(state.rules, state.actions)

\* The parser constructed from grammar g: from one of the fixed grammars
\* (whose actions need no names), the hand-built parser, or the parser built
\* from a grammar the bootstrap returned.
Constructed(g) ==
    IF g \in DOMAIN Grammars THEN Parser(Grammars[g].rules, {})
    ELSE IF g = BootParser THEN Parser(boot_parser, apegs_actions)
    ELSE Parser(history[1][g - BootParser].outcome.value.rules, apegs_actions)

\* The parser of the state; a negative index -g is the parser restored from
\* the serialized state of the parser constructed from grammar g.
ParserOf(g) == IF g < 0 THEN setstate(getstate(Constructed(-g))) ELSE Constructed(g)

\* Parser.rules of the parser of the state.
ParserRules == ParserOf(grammar).rules

\* Nothing returned yet: a matcher has just been called.
NoRet == [kind |-> "NoRet"]

\* The locals of a matcher closure: i counts the sub-matcher calls made so
\* far (0: the closure has just been entered), match and old_end are the
\* locals of that name, at is the parameter (Repeat assigns to it).
Frame(clause, at) ==
    [clause |-> clause, at |-> at, i |-> 0, match |-> None, old_end |-> 0]

Top(t) == stack[t][Len(stack[t])]

\* The matcher closure on top of the stack of t is one for a clause of `type`.
Active(t, type) ==
    /\ status[t] = "running"
    /\ stack[t] # <<>>
    /\ Top(t).clause.type = type

\* Mutants: one memo dict for all callers; a memo that is kept between calls.
MemoOfParser(t) == 1
NewMemoKept(old) == old

\* memo={} in Parser.__call__: every invocation owns a new dict.
MemoOf(t) == t
NewMemo(old) == <<>>

MemoPut(m, key, val) == [k \in DOMAIN m \cup {key} |-> IF k = key THEN val ELSE m[k]]

\* The top matcher returns or raises r to its caller.
Leave(t, r) ==
    /\ stack' = [stack EXCEPT ![t] = SubSeq(@, 1, Len(@) - 1)]
    /\ ret' = [ret EXCEPT ![t] = r]

\* The top matcher, its locals now those of frame, calls the matcher of sub.
Enter(t, frame, sub, at) ==
    /\ stack' = [stack EXCEPT ![t] = Append([@ EXCEPT ![Len(@)] = frame], Frame(sub, at))]
    /\ ret' = [ret EXCEPT ![t] = NoRet]

Unchanged == UNCHANGED <<grammar, parser, status, source, concurrent, history>>

\* ------------------------------------------------------------------------
\* The matcher closures of match_clause (bootpeg/apegs/interpret.py)
\* ------------------------------------------------------------------------

MatchValue(t) ==
    /\ Active(t, "Value")
    /\ LET at == Top(t).at
           clause == Top(t).clause
           value == clause.value
           length == Len(value)
       IN  IF Slice(source[t], at, at + length) = value
               THEN Leave(t, Match(at, length, <<>>, <<>>))
               ELSE Leave(t, MatchFailure(at, clause, None))
    /\ UNCHANGED memo
    /\ Unchanged

MatchRange(t) ==
    /\ Active(t, "Range")
    /\ LET at == Top(t).at
           clause == Top(t).clause
           length == Len(clause.lower)
           candidate == Slice(source[t], at, at + length)
       IN  IF /\ Len(candidate) = length
              /\ StrLeq(clause.lower, candidate)
              /\ StrLeq(candidate, clause.upper)
               THEN Leave(t, Match(at, length, <<>>, <<>>))
               ELSE Leave(t, MatchFailure(at, clause, None))
    /\ UNCHANGED memo
    /\ Unchanged

MatchEmpty(t) ==
    /\ Active(t, "Empty")
    /\ Leave(t, Match(Top(t).at, 0, <<>>, <<>>))
    /\ UNCHANGED memo
    /\ Unchanged

\* Mutant: a match must end before the end of the input.
MatchAnyBeforeEnd(t) ==
    /\ Active(t, "Any")
    /\ LET at == Top(t).at
           clause == Top(t).clause
           length == clause.length
       IN  IF at + length < Len(source[t])
               THEN Leave(t, Match(at, length, <<>>, <<>>))
               ELSE Leave(t, MatchFailure(at, clause, None))
    /\ UNCHANGED memo
    /\ Unchanged

MatchAny(t) ==
    /\ Active(t, "Any")
    /\ LET at == Top(t).at
           clause == Top(t).clause
           length == clause.length
       IN  IF at + length <= Len(source[t])
               THEN Leave(t, Match(at, length, <<>>, <<>>))
               ELSE Leave(t, MatchFailure(at, clause, None))
    /\ UNCHANGED memo
    /\ Unchanged

\* Sequence has no handler: an exception passes through unchanged.
SequenceRaise(exc) == exc

\* Mutant: the failure is passed on as it is, still recoverable.
EntailRaiseUnpromoted(exc) == exc

\* except MatchFailure as mf: raise FatalMatchFailure(mf.at, mf.clause) from mf
EntailRaise(exc) ==
    IF exc.kind = "MatchFailure"
        THEN FatalMatchFailure(exc.at, exc.clause, exc)
        ELSE exc

\* match = head(...); for sub in subs: match += sub(of, match.end, ...)
\* The body shared by the closures of Sequence and Entail.  With f.i
\* sub-matchers called, r is what the last of them returned or raised; an
\* exception leaves a Sequence as it is and an Entail through its handler.
SequenceStep(t) ==
    LET f == Top(t)
        r == ret[t]
        subs == f.clause.sub_clauses
        exc == IF r.kind = "Match" THEN PyError("AssertionError") ELSE r
        raised == IF f.clause.type = "Entail" THEN EntailRaise(exc) ELSE SequenceRaise(exc)
    IN  IF f.i = 0 THEN Enter(t, [f EXCEPT !.i = 1], subs[1], f.at)
        ELSE IF r.kind # "Match" THEN Leave(t, raised)
        ELSE IF f.i > 1 /\ ~Adjacent(f.match, r) THEN Leave(t, raised)
        ELSE LET match == IF f.i = 1 THEN r ELSE MatchAdd(f.match, r)
             IN  IF f.i = Len(subs) THEN Leave(t, match)
                 ELSE Enter(t, [f EXCEPT !.i = f.i + 1, !.match = match],
                            subs[f.i + 1], MatchEnd(match))

MatchSequence(t) ==
    /\ Active(t, "Sequence")
    /\ SequenceStep(t)
    /\ UNCHANGED memo
    /\ Unchanged

MatchEntail(t) ==
    /\ Active(t, "Entail")
    /\ SequenceStep(t)
    /\ UNCHANGED memo
    /\ Unchanged

\* Mutant: the handler of Choice catches nothing, the first alternative decides.
ChoiceCatchesNothing(exc) == FALSE

\* The exceptions the handler of Choice catches: except MatchFailure.
ChoiceCatches(exc) == exc.kind = "MatchFailure"

MatchChoice(t) ==
    /\ Active(t, "Choice")
    /\ LET f == Top(t)
           r == ret[t]
           subs == f.clause.sub_clauses
       IN  IF f.i = 0 THEN Enter(t, [f EXCEPT !.i = 1], subs[1], f.at)
           ELSE IF r.kind = "Match" THEN Leave(t, r)
           ELSE IF ~ChoiceCatches(r) THEN Leave(t, r)
           ELSE IF f.i < Len(subs)
               THEN Enter(t, [f EXCEPT !.i = f.i + 1], subs[f.i + 1], f.at)
           ELSE Leave(t, MatchFailure(f.at, f.clause, None))
    /\ UNCHANGED memo
    /\ Unchanged

\* Mutant: the handler catches fatal failures as well.
RepeatCatchesFatal(exc) == IsMatchFailure(exc)

\* The exceptions the handler in the loop of Repeat catches: except MatchFailure.
RepeatCatches(exc) == exc.kind = "MatchFailure"

\* Mutant: the loop goes on at the end of the input.
RepeatLoopPastEnd(t, f, match) ==
    IF f.at < MatchEnd(match)
        THEN Enter(t, [f EXCEPT !.at = MatchEnd(match), !.match = match, !.i = f.i + 1],
                   f.clause.sub_clause, MatchEnd(match))
        ELSE Leave(t, match)

\* while at < match.end < len(of): at = match.end; match += sub(of, at, ...)
RepeatLoop(t, f, match) ==
    IF f.at < MatchEnd(match) /\ MatchEnd(match) < Len(source[t])
        THEN Enter(t, [f EXCEPT !.at = MatchEnd(match), !.match = match, !.i = f.i + 1],
                   f.clause.sub_clause, MatchEnd(match))
        ELSE Leave(t, match)

MatchRepeat(t) ==
    /\ Active(t, "Repeat")
    /\ LET f == Top(t)
           r == ret[t]
       IN  IF f.i = 0 THEN Enter(t, [f EXCEPT !.i = 1], f.clause.sub_clause, f.at)
           ELSE IF f.i = 1
               THEN IF r.kind = "Match" THEN RepeatLoop(t, f, r) ELSE Leave(t, r)
           ELSE IF r.kind = "Match"
               THEN IF Adjacent(f.match, r)
                        THEN RepeatLoop(t, f, MatchAdd(f.match, r))
                        ELSE Leave(t, PyError("AssertionError"))
           ELSE IF RepeatCatches(r) THEN Leave(t, f.match)
           ELSE Leave(t, r)
    /\ UNCHANGED memo
    /\ Unchanged

\* Mutant: the handler of Not catches fatal failures as well.
NotCatchesFatal(exc) == IsMatchFailure(exc)

\* The exceptions the handler of Not catches: except MatchFailure.
NotCatches(exc) == exc.kind = "MatchFailure"

MatchNot(t) ==
    /\ Active(t, "Not")
    /\ LET f == Top(t)
           r == ret[t]
       IN  IF f.i = 0 THEN Enter(t, [f EXCEPT !.i = 1], f.clause.sub_clause, f.at)
           ELSE IF r.kind = "Match" THEN Leave(t, MatchFailure(f.at, f.clause, None))
           ELSE IF NotCatches(r) THEN Leave(t, Match(f.at, 0, <<>>, <<>>))
           ELSE Leave(t, r)
    /\ UNCHANGED memo
    /\ Unchanged

MatchAnd(t) ==
    /\ Active(t, "And")
    /\ LET f == Top(t)
           r == ret[t]
       IN  IF f.i = 0 THEN Enter(t, [f EXCEPT !.i = 1], f.clause.sub_clause, f.at)
           ELSE IF r.kind = "Match" THEN Leave(t, Match(f.at, 0, <<>>, <<>>))
           ELSE Leave(t, r)
    /\ UNCHANGED memo
    /\ Unchanged

\* Mutant: the results of the child stay results of the match.
CaptureResultKeepsResults(of, at, clause, match) ==
    IF clause.variadic
        THEN Match(match.at, match.length, match.results,
                   <<<<clause.name, Tup(match.results)>>>>)
    ELSE IF match.results = <<>>
        THEN Match(match.at, match.length, <<>>,
                   <<<<clause.name, Str(Slice(of, match.at, MatchEnd(match)))>>>>)
    ELSE IF Len(match.results) = 1
        THEN Match(match.at, match.length, match.results,
                   <<<<clause.name, match.results[1]>>>>)
    ELSE MatchFailure(at, clause, None)

\* The Match a Capture returns for the match of its child, or the
\* MatchFailure it raises for a non-variadic capture of several results.
CaptureResult(of, at, clause, match) ==
    IF clause.variadic
        THEN Match(match.at, match.length, <<>>, <<<<clause.name, Tup(match.results)>>>>)
    ELSE IF match.results = <<>>
        THEN Match(match.at, match.length, <<>>,
                   <<<<clause.name, Str(Slice(of, match.at, MatchEnd(match)))>>>>)
    ELSE IF Len(match.results) = 1
        THEN Match(match.at, match.length, <<>>, <<<<clause.name, match.results[1]>>>>)
    ELSE MatchFailure(at, clause, None)

MatchCapture(t) ==
    /\ Active(t, "Capture")
    /\ LET f == Top(t)
           r == ret[t]
       IN  IF f.i = 0 THEN Enter(t, [f EXCEPT !.i = 1], f.clause.sub_clause, f.at)
           ELSE IF r.kind = "Match"
               THEN Leave(t, CaptureResult(source[t], f.at, f.clause, r))
           ELSE Leave(t, r)
    /\ UNCHANGED memo
    /\ Unchanged

\* Mutant: the captures of the child stay captures of the match.
TransformResultKeepsCaptures(at, clause, match) ==
    LET call == py_call(clause, match.captures)
    IN  IF call.raised
            THEN FatalMatchFailure(at, clause, PyError(call.error))
            ELSE Match(match.at, match.length, <<call.value>>, match.captures)

\* The Match a Transform returns for the match of its child, or the
\* FatalMatchFailure it raises when the action raises.
TransformResult(at, clause, match) ==
    LET call == py_call(clause, match.captures)
    IN  IF call.raised
            THEN FatalMatchFailure(at, clause, PyError(call.error))
            ELSE Match(match.at, match.length, <<call.value>>, <<>>)

MatchTransform(t) ==
    /\ Active(t, "Transform")
    /\ LET f == Top(t)
           r == ret[t]
       IN  IF f.i = 0 THEN Enter(t, [f EXCEPT !.i = 1], f.clause.sub_clause, f.at)
           ELSE IF r.kind = "Match" THEN Leave(t, TransformResult(f.at, f.clause, r))
           ELSE Leave(t, r)
    /\ UNCHANGED memo
    /\ Unchanged

\* Mutant: the memo is keyed by the rule name only.
MemoKeyByName(at, name) == <<0, name>>

\* The memo is keyed by position and rule name.
MemoKey(at, name) == <<at, name>>

\* Mutant: a match that ends where the best one ends is stored as well.
GrowsOrEqual(new_match, old_end) == MatchEnd(new_match) >= old_end

\* if new_match.end > old_end: the iteration of the rule body advanced.
Grows(new_match, old_end) == MatchEnd(new_match) > old_end

\* raise type(mf)(at, clause) from mf
ReferenceRaise(at, clause, mf) ==
    IF mf.kind = "MatchFailure" THEN MatchFailure(at, clause, mf)
    ELSE IF mf.kind = "FatalMatchFailure" THEN FatalMatchFailure(at, clause, mf)
    ELSE mf

\* new_match = rules[name](of, at, memo, rules): KeyError for an unbound name.
ReferenceIterate(t, f) ==
    LET rules == match_rules(ParserRules)
    IN  IF f.clause.name \in DOMAIN rules
            THEN Enter(t, [f EXCEPT !.i = f.i + 1], rules[f.clause.name], f.at)
            ELSE Leave(t, PyError("KeyError"))

\* Mutant: the first match of the rule body is stored and returned at once.
MatchReferenceOnce(t) ==
    /\ Active(t, "Reference")
    /\ LET f == Top(t)
           r == ret[t]
           m == memo[MemoOf(t)]
           key == MemoKey(f.at, f.clause.name)
       IN  IF f.i = 0 THEN
               IF key \in DOMAIN m THEN
                   /\ IF m[key].kind = "None"
                          THEN Leave(t, MatchFailure(f.at, f.clause, None))
                          ELSE Leave(t, m[key])
                   /\ UNCHANGED memo
               ELSE
                   /\ memo' = [memo EXCEPT ![MemoOf(t)] = MemoPut(m, key, None)]
                   /\ ReferenceIterate(t, [f EXCEPT !.match = None, !.old_end = f.at - 1])
           ELSE IF r.kind # "Match" THEN
               /\ Leave(t, ReferenceRaise(f.at, f.clause, r))
               /\ UNCHANGED memo
           ELSE
               /\ memo' = [memo EXCEPT ![MemoOf(t)] = MemoPut(m, key, r)]
               /\ Leave(t, r)
    /\ Unchanged

MatchReference(t) ==
    /\ Active(t, "Reference")
    /\ LET f == Top(t)
           r == ret[t]
           m == memo[MemoOf(t)]
           key == MemoKey(f.at, f.clause.name)
       IN  IF f.i = 0 THEN
               IF key \in DOMAIN m THEN
                   /\ IF m[key].kind = "None"
                          THEN Leave(t, MatchFailure(f.at, f.clause, None))
                          ELSE Leave(t, m[key])
                   /\ UNCHANGED memo
               ELSE
                   /\ memo' = [memo EXCEPT ![MemoOf(t)] = MemoPut(m, key, None)]
                   /\ ReferenceIterate(t, [f EXCEPT !.match = None, !.old_end = f.at - 1])
           ELSE IF r.kind # "Match" THEN
               /\ Leave(t, ReferenceRaise(f.at, f.clause, r))
               /\ UNCHANGED memo
           ELSE IF Grows(r, f.old_end) THEN
               /\ memo' = [memo EXCEPT ![MemoOf(t)] = MemoPut(m, key, r)]
               /\ ReferenceIterate(t, [f EXCEPT !.match = r, !.old_end = MatchEnd(r)])
           ELSE
               /\ IF f.match.kind = "None"
                      THEN Leave(t, PyError("AssertionError"))
                      ELSE Leave(t, f.match)
               /\ UNCHANGED memo
    /\ Unchanged

\* ------------------------------------------------------------------------
\* The Parser (bootpeg/apegs/front.py)
\* ------------------------------------------------------------------------

\* Parser(*rules): construct the clauses of the rules, then Parser.__init__
\* compiles the matcher of every rule.
ParserInit ==
    /\ parser = "new"
    /\ parser' = IF \E i \in DOMAIN ParserRules :
                       ClauseInitRaises(ParserRules[i].sub_clause)
                      THEN "ValueError"
                  ELSE IF ParserInitRaises(ParserRules) THEN "TypeError"
                  ELSE "built"
    /\ UNCHANGED <<grammar, status, source, stack, ret, memo, concurrent, history>>

TopName(rules) == rules[1].name

\* Parser.__call__(source): run the entry matcher at 0 with a new memo.
ParserCall(t, of) ==
    /\ parser = "built"
    /\ status[t] = "idle"
    /\ status' = [status EXCEPT ![t] = "running"]
    /\ source' = [source EXCEPT ![t] = of]
    /\ memo' = [memo EXCEPT ![MemoOf(t)] = NewMemo(@)]
    /\ stack' = [stack EXCEPT ![t] = <<Frame(Reference(TopName(ParserRules)), 0)>>]
    /\ ret' = [ret EXCEPT ![t] = NoRet]
    /\ concurrent' = [u \in Threads |->
                        IF u = t THEN \E v \in Threads \ {t} : status[v] = "running"
                        ELSE concurrent[u] \/ status[u] = "running"]
    /\ UNCHANGED <<grammar, parser, history>>

\* What the invocation ends with: the value unpack returns, the ValueError
\* it raises, the ParseFailure report raises, or another exception.
CallOutcome(r) ==
    IF r.kind = "Match" THEN unpack(r)
    ELSE IF IsMatchFailure(r) THEN report(r)
    ELSE Outcome(r.name, Str(<<>>), 0, <<>>, NoMessage)

\* Parser.__call__ returns or raises once the entry matcher has.
ParserReturn(t) ==
    /\ status[t] = "running"
    /\ stack[t] = <<>>
    /\ status' = [status EXCEPT ![t] = "idle"]
    /\ history' = [history EXCEPT ![t] =
                      Append(@, [source |-> source[t], result |-> ret[t],
                                 outcome |-> CallOutcome(ret[t]),
                                 concurrent |-> concurrent[t]])]
    /\ UNCHANGED <<grammar, parser, source, stack, ret, memo, concurrent>>

\* ------------------------------------------------------------------------
\* An invocation as a function of its configuration
\* ------------------------------------------------------------------------

\* The configuration of the invocation of caller t: its input, the frames of
\* its matcher closures, what the last matcher returned or raised, its memo.
Configuration(t) ==
    [of |-> source[t], stack |-> stack[t], ret |-> ret[t], memo |-> memo[MemoOf(t)]]

Finished(c) == c.stack = <<>>

\* Leave and Enter, of a configuration.
Left(c, r) == [c EXCEPT !.stack = SubSeq(@, 1, Len(@) - 1), !.ret = r]

Entered(c, frame, sub, at) ==
    [c EXCEPT !.stack = Append([@ EXCEPT ![Len(@)] = frame], Frame(sub, at)),
              !.ret = NoRet]

\* SequenceStep, of a configuration.
SequenceStepped(c) ==
    LET f == c.stack[Len(c.stack)]
        r == c.ret
        subs == f.clause.sub_clauses
        exc == IF r.kind = "Match" THEN PyError("AssertionError") ELSE r
        raised == IF f.clause.type = "Entail" THEN EntailRaise(exc) ELSE SequenceRaise(exc)
    IN  IF f.i = 0 THEN Entered(c, [f EXCEPT !.i = 1], subs[1], f.at)
        ELSE IF r.kind # "Match" THEN Left(c, raised)
        ELSE IF f.i > 1 /\ ~Adjacent(f.match, r) THEN Left(c, raised)
        ELSE LET match == IF f.i = 1 THEN r ELSE MatchAdd(f.match, r)
             IN  IF f.i = Len(subs) THEN Left(c, match)
                 ELSE Entered(c, [f EXCEPT !.i = f.i + 1, !.match = match],
                              subs[f.i + 1], MatchEnd(match))

\* RepeatLoop, of a configuration.
RepeatLooped(c, f, match) ==
    IF f.at < MatchEnd(match) /\ MatchEnd(match) < Len(c.of)
        THEN Entered(c, [f EXCEPT !.at = MatchEnd(match), !.match = match, !.i = f.i + 1],
                     f.clause.sub_clause, MatchEnd(match))
        ELSE Left(c, match)

\* ReferenceIterate, of a configuration and the matchers of the rules.
ReferenceIterated(c, f, rules) ==
    IF f.clause.name \in DOMAIN rules
        THEN Entered(c, [f EXCEPT !.i = f.i + 1], rules[f.clause.name], f.at)
        ELSE Left(c, PyError("KeyError"))

\* The step of the matcher closure on top of the stack: the configuration
\* after the action MatchValue, MatchRange, ... that is enabled in c.
Stepped(c, rules) ==
    LET f == c.stack[Len(c.stack)]
        r == c.ret
        at == f.at
        clause == f.clause
    IN  CASE clause.type = "Value" ->
            LET length == Len(clause.value)
            IN  IF Slice(c.of, at, at + length) = clause.value
                    THEN Left(c, Match(at, length, <<>>, <<>>))
                    ELSE Left(c, MatchFailure(at, clause, None))
          [] clause.type = "Range" ->
            LET length == Len(clause.lower)
                candidate == Slice(c.of, at, at + length)
            IN  IF /\ Len(candidate) = length
                   /\ StrLeq(clause.lower, candidate)
                   /\ StrLeq(candidate, clause.upper)
                    THEN Left(c, Match(at, length, <<>>, <<>>))
                    ELSE Left(c, MatchFailure(at, clause, None))
          [] clause.type = "Empty" -> Left(c, Match(at, 0, <<>>, <<>>))
          [] clause.type = "Any" ->
            IF at + clause.length <= Len(c.of)
                THEN Left(c, Match(at, clause.length, <<>>, <<>>))
                ELSE Left(c, MatchFailure(at, clause, None))
          [] clause.type \in {"Sequence", "Entail"} -> SequenceStepped(c)
          [] clause.type = "Choice" ->
            IF f.i = 0 THEN Entered(c, [f EXCEPT !.i = 1], clause.sub_clauses[1], at)
            ELSE IF r.kind = "Match" THEN Left(c, r)
            ELSE IF ~ChoiceCatches(r) THEN Left(c, r)
            ELSE IF f.i < Len(clause.sub_clauses)
                THEN Entered(c, [f EXCEPT !.i = f.i + 1], clause.sub_clauses[f.i + 1], at)
            ELSE Left(c, MatchFailure(at, clause, None))
          [] clause.type = "Repeat" ->
            IF f.i = 0 THEN Entered(c, [f EXCEPT !.i = 1], clause.sub_clause, at)
            ELSE IF f.i = 1
                THEN IF r.kind = "Match" THEN RepeatLooped(c, f, r) ELSE Left(c, r)
            ELSE IF r.kind = "Match"
                THEN IF Adjacent(f.match, r)
                         THEN RepeatLooped(c, f, MatchAdd(f.match, r))
                         ELSE Left(c, PyError("AssertionError"))
            ELSE IF RepeatCatches(r) THEN Left(c, f.match)
            ELSE Left(c, r)
          [] clause.type = "Not" ->
            IF f.i = 0 THEN Entered(c, [f EXCEPT !.i = 1], clause.sub_clause, at)
            ELSE IF r.kind = "Match" THEN Left(c, MatchFailure(at, clause, None))
            ELSE IF NotCatches(r) THEN Left(c, Match(at, 0, <<>>, <<>>))
            ELSE Left(c, r)
          [] clause.type = "And" ->
            IF f.i = 0 THEN Entered(c, [f EXCEPT !.i = 1], clause.sub_clause, at)
            ELSE IF r.kind = "Match" THEN Left(c, Match(at, 0, <<>>, <<>>))
            ELSE Left(c, r)
          [] clause.type = "Capture" ->
            IF f.i = 0 THEN Entered(c, [f EXCEPT !.i = 1], clause.sub_clause, at)
            ELSE IF r.kind = "Match" THEN Left(c, CaptureResult(c.of, at, clause, r))
            ELSE Left(c, r)
          [] clause.type = "Transform" ->
            IF f.i = 0 THEN Entered(c, [f EXCEPT !.i = 1], clause.sub_clause, at)
            ELSE IF r.kind = "Match" THEN Left(c, TransformResult(at, clause, r))
            ELSE Left(c, r)
          [] clause.type = "Reference" ->
            LET key == MemoKey(at, clause.name)
            IN  IF f.i = 0 THEN
                    IF key \in DOMAIN c.memo THEN
                        IF c.memo[key].kind = "None"
                            THEN Left(c, MatchFailure(at, clause, None))
                            ELSE Left(c, c.memo[key])
                    ELSE ReferenceIterated([c EXCEPT !.memo = MemoPut(@, key, None)],
                                           [f EXCEPT !.match = None, !.old_end = at - 1],
                                           rules)
                ELSE IF r.kind # "Match" THEN Left(c, ReferenceRaise(at, clause, r))
                ELSE IF Grows(r, f.old_end) THEN
                    ReferenceIterated([c EXCEPT !.memo = MemoPut(@, key, r)],
                                      [f EXCEPT !.match = r, !.old_end = MatchEnd(r)],
                                      rules)
                ELSE IF f.match.kind = "None" THEN Left(c, PyError("AssertionError"))
                ELSE Left(c, f.match)

\* The configuration after the next n steps, or after the last step of the
\* invocation if that comes first: the two halves of the n steps, one after
\* the other.
RECURSIVE Run(_, _, _)
Run(c, n, rules) ==
    IF Finished(c) THEN c
    ELSE IF n = 1 THEN Stepped(c, rules)
    ELSE Run(Run(c, n \div 2, rules), n - n \div 2, rules)

\* Caller t alone: its invocation advances by MaxSteps steps at once.
ParserRun(t) ==
    /\ status[t] = "running"
    /\ stack[t] # <<>>
    /\ LET c == Run(Configuration(t), MaxSteps, match_rules(ParserRules))
       IN  /\ stack' = [stack EXCEPT ![t] = c.stack]
           /\ ret' = [ret EXCEPT ![t] = c.ret]
           /\ memo' = [memo EXCEPT ![MemoOf(t)] = c.memo]
    /\ Unchanged

\* Grammar.parser(**actions) of the grammar the last invocation returned:
\* Parser(*self.rules, **actions), with the actions of the parser before.
GrammarParser ==
    /\ grammar >= BootParser
    /\ grammar - BootParser < MaxBoot
    /\ parser = "built"
    /\ status[1] = "idle"
    /\ Len(history[1]) = grammar - BootParser + 1
    /\ LET last == history[1][Len(history[1])].outcome
       IN  /\ last.status = "ok"
           /\ "rules" \in DOMAIN last.value
           /\ parser' = IF ParserInitRaises(last.value.rules) THEN "TypeError"
                         ELSE "built"
    /\ grammar' = grammar + 1
    /\ UNCHANGED <<status, source, stack, ret, memo, concurrent, history>>

\* ------------------------------------------------------------------------
\* Specifications
\* ------------------------------------------------------------------------

Step(t) ==
    \/ MatchValue(t) \/ MatchRange(t) \/ MatchEmpty(t) \/ MatchAny(t)
    \/ MatchSequence(t) \/ MatchEntail(t) \/ MatchChoice(t) \/ MatchRepeat(t)
    \/ MatchNot(t) \/ MatchAnd(t) \/ MatchCapture(t) \/ MatchTransform(t)
    \/ MatchReference(t)
    \/ ParserReturn(t)

InitOf(gs) ==
    /\ grammar \in gs
    /\ parser = "new"
    /\ status = [t \in Threads |-> "idle"]
    /\ source = [t \in Threads |-> <<>>]
    /\ stack = [t \in Threads |-> <<>>]
    /\ ret = [t \in Threads |-> NoRet]
    /\ memo = [t \in Threads |-> <<>>]
    /\ concurrent = [t \in Threads |-> FALSE]
    /\ history = [t \in Threads |-> <<>>]

\* One caller invokes the parser MaxCalls times, one invocation after the other.
Init == InitOf(DOMAIN Grammars)

Invoke ==
    \E of \in Inputs(grammar) : Len(history[1]) < MaxCalls /\ ParserCall(1, of)

Next ==
    \/ ParserInit
    \/ Invoke
    \/ Step(1)

Spec == Init /\ [][Next]_vars

\* Two callers invoke the parser.  Caller 1 first runs one invocation alone;
\* then it repeats that invocation while caller 2 runs one of its own, on any
\* input, the two interleaved step by step.
MaxConcLen == 3

ConcGrammars ==
    {g \in DOMAIN Grammars : Grammars[g].rules \in {EntailRules, LeftRecRules, NotAnyRules, RangeRules,
                                                  MultiuseRules}}

ConcInputs(g) == {of \in Inputs(g) : Len(of) <= MaxConcLen}

InitConc == InitOf(ConcGrammars)

InvokeAlone ==
    \E of \in ConcInputs(grammar) :
        /\ history[1] = <<>>
        /\ ParserCall(1, of)

InvokeAgain ==
    /\ Len(history[1]) = 1
    /\ ParserCall(1, history[1][1].source)

InvokeOther ==
    \E of \in ConcInputs(grammar) :
        /\ history[1] # <<>>
        /\ history[2] = <<>>
        /\ ParserCall(2, of)

NextConc ==
    \/ ParserInit
    \/ InvokeAlone
    \/ InvokeAgain
    \/ InvokeOther
    \/ \E t \in Threads : Step(t)

SpecConc == InitConc /\ [][NextConc]_vars

\* The bootstrap: the hand-built parser parses the source of the surface
\* syntax, the parser of the grammar it returns parses the source again, and
\* so on, MaxBoot parsers after the hand-built one.  One caller, whose
\* invocations advance MaxSteps steps at a time.
InitBoot == InitOf({BootParser})

InvokeBoot ==
    /\ Len(history[1]) = grammar - BootParser
    /\ ParserCall(1, bpeg_source)

NextBoot ==
    \/ ParserInit
    \/ InvokeBoot
    \/ ParserRun(1)
    \/ ParserReturn(1)
    \/ GrammarParser

SpecBoot == InitBoot /\ [][NextBoot]_vars

\* The round trip of the pretty-printer: one caller unparses one of the
\* representative clauses and has the rule of that body parsed by the parser
\* of the surface syntax, here the hand-built one, step by step.
InitRoundtrip == InitOf({BootParser})

\* test_roundtrip(clause) up to the call of the parser: an exception unparse
\* raises, or the AssertionError of an empty literal, ends the round trip.
test_roundtrip ==
    \E i \in DOMAIN clauses :
        LET literal == unparse(clauses[i])
            error == IF literal.raised THEN literal.error
                     ELSE IF literal.value.s = <<>> THEN "AssertionError"
                     ELSE ""
        IN  /\ parser = "built"
            /\ status[1] = "idle"
            /\ history[1] = <<>>
            /\ IF error # ""
                  THEN /\ status' = [status EXCEPT ![1] = error]
                       /\ UNCHANGED <<grammar, parser, source, stack, ret, memo,
                                      concurrent, history>>
                  ELSE ParserCall(1, roundtrip_source(literal.value.s))

\* One step of the matcher closure on top of the stack of caller t.
ParserStep(t) ==
    /\ status[t] = "running"
    /\ stack[t] # <<>>
    /\ LET c == Stepped(Configuration(t), match_rules(ParserRules))
       IN  /\ stack' = [stack EXCEPT ![t] = c.stack]
           /\ ret' = [ret EXCEPT ![t] = c.ret]
           /\ memo' = [memo EXCEPT ![MemoOf(t)] = c.memo]
    /\ Unchanged

NextRoundtrip ==
    \/ ParserInit
    \/ test_roundtrip
    \/ ParserStep(1)
    \/ ParserReturn(1)

SpecRoundtrip == InitRoundtrip /\ [][NextRoundtrip]_vars

\* Serialization: caller 1 invokes a built parser once; the parser is then
\* replaced by the one restored from its serialized state, which caller 2
\* invokes on the same input.
InitRestore == InitOf(DOMAIN Grammars)

InvokeConstructed ==
    /\ grammar > 0
    /\ history[1] = <<>>
    /\ \E of \in Inputs(grammar) : ParserCall(1, of)

\* Parser.__setstate__(p.__getstate__()) on a new object: __init__ compiles
\* the matchers of the rules of the state.
ParserSetstate ==
    /\ grammar > 0
    /\ parser = "built"
    /\ status[1] = "idle"
    /\ Len(history[1]) = 1
    /\ grammar' = -grammar
    /\ parser' = IF ParserInitRaises(ParserOf(-grammar).rules) THEN "TypeError"
                 ELSE "built"
    /\ UNCHANGED <<status, source, stack, ret, memo, concurrent, history>>

InvokeRestored ==
    /\ grammar < 0
    /\ history[2] = <<>>
    /\ ParserCall(2, history[1][1].source)

NextRestore ==
    \/ ParserInit
    \/ InvokeConstructed
    \/ ParserSetstate
    \/ InvokeRestored
    \/ \E t \in Threads : Step(t)

SpecRestore == InitRestore /\ [][NextRestore]_vars

\* Stepped is the step the actions MatchValue, MatchRange, ... take: every
\* step of a matcher closure, of either caller, leads to the configuration
\* Stepped gives (a property of Spec and SpecConc).
SteppedAgrees ==
    [][\A t \in Threads :
          (status[t] = "running" /\ stack[t] # <<>> /\ stack[t]' # stack[t])
          => Configuration(t)' = Stepped(Configuration(t), match_rules(ParserRules))]_vars

\* ------------------------------------------------------------------------
\* Properties
\* ------------------------------------------------------------------------

Rules == Grammars[grammar].rules

\* The invocations that have ended, of all callers.
Ended == UNION {{history[t][i] : i \in DOMAIN history[t]} : t \in Threads}

X == Str(<<"x">>)

\* C1: Entail commitment.  With top: "a" ~ "b" | "a" "c", on every input
\* where "a" matches and "b" then fails recoverably (such as "ac"), the
\* second alternative "a" "c" is never attempted, the Choice raises a fatal
\* failure that carries the position and clause of the failure of "b", and
\* the invocation ends in a ParseFailure at index 1 expecting "b".
EntailCase(of) ==
    /\ Rules = EntailRules
    /\ Len(of) >= 1 /\ of[1] = "a"
    /\ ~(Len(of) >= 2 /\ of[2] = "b")

C1_EntailCommits ==
    /\ \A t \in Threads :
        (status[t] = "running" /\ EntailCase(source[t])) =>
            /\ \A i \in DOMAIN stack[t] :
                    stack[t][i].clause # Sequence(<<Value(<<"a">>), Value(<<"c">>)>>)
            /\ (Len(stack[t]) = 1 /\ ret[t].kind # "NoRet") =>
                    /\ ret[t].kind = "FatalMatchFailure"
                    /\ ret[t].at = 1
                    /\ ret[t].clause = Value(<<"b">>)
    /\ \A h \in Ended :
        EntailCase(h.source) =>
            /\ h.outcome.status = "ParseFailure"
            /\ h.outcome.index = 1
            /\ h.outcome.message = [what |-> "expected", clause |-> Value(<<"b">>)]

C1_Witness ==
    \E h \in Ended : EntailCase(h.source) /\ h.source = <<"a", "c">>

\* C2 (as claimed): with E: E "+" E | "x", matching "x+x+x" succeeds, covers
\* all 5 elements and nests to the left, ((x+x)+x).
LeftRecCase(h) == Rules = LeftRecRules /\ h.source = <<"x", "+", "x", "+", "x">>

C2_LeftAssociative ==
    \A h \in Ended :
        LeftRecCase(h) =>
            /\ h.outcome.status = "ok"
            /\ h.result.length = 5
            /\ h.outcome.value = Tup(<<Tup(<<X, X>>), X>>)

\* C2 (amended): with E: E "+" E | "x", matching "x+x+x" succeeds, covers all
\* 5 elements and nests to the right, (x+(x+x)): the left operand of the
\* outermost "+" is a single x and the right operand is itself a "+" node.
C2_RightAssociative ==
    \A h \in Ended :
        LeftRecCase(h) =>
            /\ h.outcome.status = "ok"
            /\ h.result.kind = "Match" /\ h.result.at = 0 /\ h.result.length = 5
            /\ h.outcome.value = Tup(<<X, Tup(<<X, X>>)>>)

C2_Witness == \E h \in Ended : LeftRecCase(h) /\ h.result.kind = "Match"

\* C3: indirect left recursion.  With A: B "a" | "x" and B: A "b", the match
\* of Reference(A) at 0 of "xba" grows through B and covers all 3 elements.
C3_IndirectGrows ==
    \A h \in Ended :
        (Rules = IndirectRules /\ h.source = <<"x", "b", "a">>) =>
            h.result.kind = "Match" /\ h.result.length = 3

\* C4: an invocation that returns a value has matched the entire input.
C4_ConsumesInput ==
    \A h \in Ended :
        h.outcome.status = "ok" =>
            h.result.kind = "Match" /\ h.result.length = Len(h.source)

\* C5: for the Match of the entry matcher the parser returns results[0] iff
\* the match has no captures and exactly one result; in every other case it
\* raises ValueError, which is no ParseFailure, and returns no value.
C5_Unpack ==
    \A h \in Ended :
        h.result.kind = "Match" =>
            IF h.result.captures = <<>> /\ Len(h.result.results) = 1
                THEN h.outcome.status = "ok" /\ h.outcome.value = h.result.results[1]
                ELSE h.outcome.status = "ValueError"

C5_Witness ==
    /\ \E h \in Ended : h.outcome.status = "ok"
    /\ \E h \in Ended :
            /\ h.result.kind = "Match"
            /\ h.result.captures # <<>>
            /\ Len(h.result.results) = 1
            /\ h.outcome.status = "ValueError"

\* C6: a fatal failure is never recovered.  Once a matcher of an invocation
\* has raised a fatal failure, every step of that invocation passes a fatal
\* failure on, until the invocation ends by raising ParseFailure.
C6_FatalPropagates ==
    [][\A t \in Threads :
        (status[t] = "running" /\ ret[t].kind = "FatalMatchFailure") =>
            \/ status'[t] = "running" /\ ret'[t].kind = "FatalMatchFailure"
            \/ /\ status'[t] = "idle"
               /\ history'[t][Len(history'[t])].outcome.status = "ParseFailure"]_vars

\* A fatal failure reaches a Repeat that already holds a match.
C6_Witness ==
    \E t \in Threads :
        /\ Active(t, "Repeat")
        /\ Top(t).i >= 2
        /\ ret[t].kind = "FatalMatchFailure"

\* C7: the ParseFailure of a failed parse has the position of the innermost
\* match failure of the cause chain as its index and the names of the
\* Reference clauses of the failures enclosing it, outermost first, as its
\* path; top: a=(.) !. {a} on "bb" fails at index 1 with path (top).
RECURSIVE InnermostFailure(_)
InnermostFailure(err) ==
    IF IsMatchFailure(err.cause) THEN InnermostFailure(err.cause) ELSE err

RECURSIVE EnclosingReferences(_)
EnclosingReferences(err) ==
    IF IsMatchFailure(err.cause)
        THEN (IF err.clause.type = "Reference" THEN <<err.clause.name>> ELSE <<>>)
             \o EnclosingReferences(err.cause)
        ELSE <<>>

C7_Report ==
    \A h \in Ended :
        /\ IsMatchFailure(h.result) =>
            /\ h.outcome.status = "ParseFailure"
            /\ h.outcome.index = InnermostFailure(h.result).at
            /\ h.outcome.path = EnclosingReferences(h.result)
        /\ (Rules = NotAnyRules /\ h.source = <<"b", "b">>) =>
            /\ h.outcome.status = "ParseFailure"
            /\ h.outcome.index = 1
            /\ h.outcome.path = <<"top">>

\* The parse of "bb" has failed.
C7_Witness ==
    \E h \in Ended :
        /\ Rules = NotAnyRules
        /\ h.source = <<"b", "b">>
        /\ IsMatchFailure(h.result)
        /\ InnermostFailure(h.result).clause = Not(Any(1))

\* C8: two invocations of a parser on one input end alike: with equal
\* results, or with ParseFailures of equal index and path, whatever was
\* parsed before.
C8_Deterministic ==
    \A t \in Threads : \A i, j \in DOMAIN history[t] :
        history[t][i].source = history[t][j].source =>
            history[t][i].outcome = history[t][j].outcome

C8_Witness ==
    \E t \in Threads : \E i, j \in DOMAIN history[t] :
        /\ i < j
        /\ history[t][i].source = history[t][j].source
        /\ history[t][j].outcome.status = "ParseFailure"
        /\ history[t][j].outcome.path # <<>>

\* C9: an invocation that is interleaved with another invocation of the
\* same parser ends as the invocation on that input that ran alone.
C9_ConcurrentSafe ==
    \A h \in Ended : \A a \in Ended :
        (h.concurrent /\ ~a.concurrent /\ h.source = a.source) =>
            h.outcome = a.outcome

\* Both callers have run an invocation interleaved with the other's, on
\* different inputs.
C9_Witness ==
    /\ Len(history[1]) = 2 /\ Len(history[2]) = 1
    /\ history[1][2].concurrent /\ history[2][1].concurrent
    /\ ~history[1][1].concurrent
    /\ history[2][1].source # history[1][2].source
    /\ history[1][2].result.kind = "Match"
    /\ history[1][2].result.length >= 3

\* C10: constructing a Parser from a grammar with a Choice whose
\* alternatives bind different sets of capture names raises an error,
\* wherever in a rule body the Choice occurs.
Signature(clause) == discover_captures(clause).names

RECURSIVE HasDisagreeingChoice(_)
HasDisagreeingChoice(clause) ==
    IF clause.type \in {"Sequence", "Entail"} THEN
        \E i \in DOMAIN clause.sub_clauses : HasDisagreeingChoice(clause.sub_clauses[i])
    ELSE IF clause.type = "Choice" THEN
        \/ \E i \in DOMAIN clause.sub_clauses : HasDisagreeingChoice(clause.sub_clauses[i])
        \/ \E i \in DOMAIN clause.sub_clauses :
                Signature(clause.sub_clauses[i]) # Signature(clause.sub_clauses[1])
    ELSE IF clause.type \in {"Repeat", "Not", "And", "Capture", "Transform"} THEN
        HasDisagreeingChoice(clause.sub_clause)
    ELSE FALSE

C10_DisagreementRejected ==
    (\E i \in DOMAIN Rules : HasDisagreeingChoice(Rules[i].sub_clause)) =>
        /\ parser # "built"
        /\ Ended = {}

\* C11: action-signature rejection.  Building a parser from a rule whose
\* action uses a name its transformed clause does not capture, or whose
\* transformed clause captures a name its action does not use, raises an
\* error at build time: no parser is built from such a grammar.
ActionParameters(action) == {action.names[i] : i \in DOMAIN action.names}

RECURSIVE HasSignatureMismatch(_)
HasSignatureMismatch(clause) ==
    IF clause.type \in {"Sequence", "Entail", "Choice"} THEN
        \E i \in DOMAIN clause.sub_clauses : HasSignatureMismatch(clause.sub_clauses[i])
    ELSE IF clause.type = "Transform" THEN
        \/ ActionParameters(clause.action) # Signature(clause.sub_clause)
        \/ HasSignatureMismatch(clause.sub_clause)
    ELSE IF clause.type \in {"Repeat", "Not", "And", "Capture"} THEN
        HasSignatureMismatch(clause.sub_clause)
    ELSE FALSE

C11_SignatureRejected ==
    (\E i \in DOMAIN Rules : HasSignatureMismatch(Rules[i].sub_clause)) =>
        parser # "built"

\* C12: unresolved references are rejected eagerly.  No parser is built from
\* rules that refer to a name no rule has, and no memo entry is ever written
\* for a name that is not bound.
RECURSIVE ReferencedNames(_)
ReferencedNames(clause) ==
    IF clause.type \in {"Sequence", "Entail", "Choice"} THEN
        UNION {ReferencedNames(clause.sub_clauses[i]) : i \in DOMAIN clause.sub_clauses}
    ELSE IF clause.type \in {"Repeat", "Not", "And", "Capture", "Transform"} THEN
        ReferencedNames(clause.sub_clause)
    ELSE IF clause.type = "Reference" THEN {clause.name}
    ELSE {}

RuleNames == {Rules[i].name : i \in DOMAIN Rules}

C12_UnresolvedRejected ==
    /\ (\E i \in DOMAIN Rules : ReferencedNames(Rules[i].sub_clause) \ RuleNames # {}) =>
            parser # "built"
    /\ \A t \in Threads : \A key \in DOMAIN memo[t] : key[2] \in RuleNames

\* C13: a Repeat of a clause that can match zero length (Empty, Not(x),
\* Choice(x, Empty), ...) is rejected before any input is parsed: no parser
\* is built from a rule that contains one.
RECURSIVE MaybeZero(_)
MaybeZero(clause) ==
    IF clause.type \in {"Empty", "Not", "And"} THEN TRUE
    ELSE IF clause.type = "Value" THEN clause.value = <<>>
    ELSE IF clause.type \in {"Sequence", "Entail"} THEN
        \A i \in DOMAIN clause.sub_clauses : MaybeZero(clause.sub_clauses[i])
    ELSE IF clause.type = "Choice" THEN
        \E i \in DOMAIN clause.sub_clauses : MaybeZero(clause.sub_clauses[i])
    ELSE IF clause.type \in {"Repeat", "Capture", "Transform"} THEN
        MaybeZero(clause.sub_clause)
    ELSE FALSE

RECURSIVE HasRepeatOfMaybeZero(_)
HasRepeatOfMaybeZero(clause) ==
    IF clause.type \in {"Sequence", "Entail", "Choice"} THEN
        \E i \in DOMAIN clause.sub_clauses : HasRepeatOfMaybeZero(clause.sub_clauses[i])
    ELSE IF clause.type = "Repeat" THEN
        MaybeZero(clause.sub_clause) \/ HasRepeatOfMaybeZero(clause.sub_clause)
    ELSE IF clause.type \in {"Not", "And", "Capture", "Transform"} THEN
        HasRepeatOfMaybeZero(clause.sub_clause)
    ELSE FALSE

C13_RepeatEmptyRejected ==
    (\E i \in DOMAIN Rules : HasRepeatOfMaybeZero(Rules[i].sub_clause)) =>
        parser # "built"

\* C14: Range(a, b) with bounds of unequal length raises an error and gives
\* no clause, hence no parser; every other Range holds bounds of equal
\* length with lower <= upper whatever the order of the arguments, so that
\* Range(a, b) = Range(b, a), and it matches exactly the texts whose first
\* |lower| elements s exist and satisfy lower <= s <= upper.
RangeOffset == Len(Grammars) - Len(RangeFamily)

C14_RangeInvariant ==
    grammar > RangeOffset =>
        LET a == RangeFamily[grammar - RangeOffset].lower
            b == RangeFamily[grammar - RangeOffset].upper
            clause == Rules[1].sub_clause
            lo == IF StrLeq(a, b) THEN a ELSE b
            hi == IF StrLeq(a, b) THEN b ELSE a
        IN  IF Len(a) # Len(b)
                THEN /\ clause.type # "Range"
                     /\ parser \in {"new", "ValueError"}
                     /\ Ended = {}
                ELSE /\ clause.type = "Range"
                     /\ Len(clause.lower) = Len(clause.upper)
                     /\ StrLeq(clause.lower, clause.upper)
                     /\ clause = Range(b, a)
                     /\ parser \in {"new", "built"}
                     /\ \A h \in Ended :
                            IF /\ Len(h.source) >= Len(lo)
                               /\ StrLeq(lo, SubSeq(h.source, 1, Len(lo)))
                               /\ StrLeq(SubSeq(h.source, 1, Len(lo)), hi)
                                THEN h.result = Match(0, Len(lo), <<>>, <<>>)
                                ELSE h.result.kind = "MatchFailure"

\* Range("ca", "ac"), its bounds given in descending order, has matched "bb".
C14_Witness ==
    /\ grammar > RangeOffset
    /\ RangeFamily[grammar - RangeOffset] = [lower |-> <<"c", "a">>, upper |-> <<"a", "c">>]
    /\ \E h \in Ended : h.source = <<"b", "b">> /\ h.result.kind = "Match"

\* C15: when the child of Capture(c, name, variadic) matches, the Capture
\* returns a Match of the child's position and length with no results and
\* the one capture (name, value): value is the tuple of the results of c if
\* variadic, else the slice of the input the match covers if c gave no
\* result, else the single result of c.  A captured value may be used
\* several times: top: a=(.*) {(a, a)} on s returns (s, s).
C15_CaptureValue ==
    [][\A t \in Threads :
        /\ (/\ Active(t, "Capture") /\ Top(t).i = 1 /\ ret[t].kind = "Match"
            /\ stack'[t] # stack[t]
            /\ (Top(t).clause.variadic \/ Len(ret[t].results) <= 1)) =>
                LET c == Top(t).clause
                    m == ret[t]
                    value == IF c.variadic THEN Tup(m.results)
                             ELSE IF m.results = <<>>
                                 THEN Str(SubSeq(source[t], m.at + 1, m.at + m.length))
                             ELSE m.results[1]
                IN  ret'[t] = Match(m.at, m.length, <<>>, <<<<c.name, value>>>>)
        /\ (Rules = MultiuseRules /\ status[t] = "running" /\ status'[t] = "idle") =>
                LET h == history'[t][Len(history'[t])]
                IN  /\ h.outcome.status = "ok"
                    /\ h.outcome.value = Tup(<<Str(h.source), Str(h.source)>>)]_vars

\* top: a=(.*) {(a, a)} has parsed "bc".
C15_Witness ==
    \E h \in Ended :
        /\ Rules = MultiuseRules
        /\ h.source = <<"b", "c">>
        /\ h.outcome.value = Tup(<<Str(<<"b", "c">>), Str(<<"b", "c">>)>>)

\* C16: a non-variadic Capture whose child yields more than one result is a
\* design error, not a recoverable match failure: no Capture raises a
\* recoverable failure of its own, an enclosing Choice does not go on to a
\* later alternative (n=(p p) on "xx") and an enclosing Not does not succeed
\* because of it (!(n=(p p)) on "!xx"), so neither invocation returns a value.
C16_DesignError ==
    /\ \A t \in Threads :
        status[t] = "running" =>
            ~(ret[t].kind = "MatchFailure" /\ ret[t].clause.type = "Capture")
    /\ \A h \in Ended :
        (Rules = CaptureRules /\ h.source \in {<<"x", "x">>, <<"!", "x", "x">>}) =>
            h.outcome.status # "ok"

\* C17: when the child of Transform(c, action) matches with Match m, the
\* action is called with the captures of m as named arguments; the Transform
\* returns a Match of m's position and length whose results are exactly the
\* returned value and whose captures are empty, or, if the action raises,
\* it raises a fatal failure at the position the Transform was matched at.
C17_Transform ==
    [][\A t \in Threads :
        (/\ Active(t, "Transform") /\ Top(t).i = 1 /\ ret[t].kind = "Match"
         /\ stack'[t] # stack[t]) =>
            LET f == Top(t)
                m == ret[t]
                call == py_call(f.clause, m.captures)
            IN  IF call.raised
                    THEN /\ ret'[t].kind = "FatalMatchFailure"
                         /\ ret'[t].at = f.at
                         /\ ret'[t].clause = f.clause
                    ELSE /\ ret'[t].kind = "Match"
                         /\ ret'[t].at = m.at
                         /\ ret'[t].length = m.length
                         /\ ret'[t].results = <<call.value>>
                         /\ ret'[t].captures = <<>>]_vars

\* The action of "c" {1/0} has raised for a Transform matched at position 1.
C17_Witness ==
    \E t \in Threads :
        /\ ret[t].kind = "FatalMatchFailure"
        /\ ret[t].clause = Transform(Value(<<"c">>), ActRaise)
        /\ ret[t].at = 1
        /\ ret[t].cause.kind = "PyError"

\* C18: Any(k) at position at succeeds, with length k, iff at + k <= |input|:
\* Any(1) matches the last element and fails at the end of the input, and
\* Not(Any(1)) succeeds exactly at the end of the input.
C18_Any ==
    [][\A t \in Threads :
        /\ (Active(t, "Any") /\ stack'[t] # stack[t]) =>
                IF Top(t).at + Top(t).clause.length <= Len(source[t])
                    THEN ret'[t] = Match(Top(t).at, Top(t).clause.length, <<>>, <<>>)
                    ELSE ret'[t].kind = "MatchFailure"
        /\ (/\ Active(t, "Not") /\ Top(t).clause = Not(Any(1)) /\ Top(t).i = 1
            /\ stack'[t] # stack[t]) =>
                (ret'[t].kind = "Match" <=> Top(t).at = Len(source[t]))]_vars

\* Any(2) has matched the last two elements of "bc" and Not(Any(1)) the end.
C18_Witness ==
    \E h \in Ended :
        /\ Rules = AnyRules
        /\ h.source = <<"b", "c">>
        /\ h.result.kind = "Match"
        /\ h.result.length = 2

\* ------------------------------------------------------------------------
\* C19: the bootstrap reaches a fixpoint.  The hand-built parser parses the
\* source of the surface syntax and returns a grammar, of which the parser
\* P1 is built; P1 parses the same source and returns the grammar of P2; and
\* so on.  Every parser of the chain is constructed without an error, every
\* one parses the source completely, and from P1 on the rules of the parser
\* built from the grammar a parser returns equal the rules of that parser.
\* ------------------------------------------------------------------------

\* The grammar the n-th parse of the source returned: the rules of Pn.
Pass(n) == history[1][n]

C20_Roundtrip ==
    /\ status[1] \in {"idle", "running"}
    /\ \A i \in DOMAIN clauses, n \in DOMAIN history[1] :
          LET literal == unparse(clauses[i])
              trip == history[1][n]
          IN  (~literal.raised /\ trip.source = roundtrip_source(literal.value.s))
                  => /\ trip.outcome.status = "ok"
                     /\ trip.outcome.value.type = "Grammar"
                     /\ trip.outcome.value.rules[1].sub_clause = clauses[i]

\* ------------------------------------------------------------------------
\* C21: serialization round trip.  The parser restored from the serialized
\* state of a built parser is built, has the top rule, the rules and the
\* actions of that parser, and an invocation of it ends as the invocation of
\* that parser on the same input did: with the same value, or with a
\* ParseFailure of the same index and path.
\* ------------------------------------------------------------------------

C21_Restore ==
    /\ grammar < 0 =>
        /\ parser = "built"
        /\ ParserOf(grammar).top = ParserOf(-grammar).top
        /\ ParserOf(grammar).rules = ParserOf(-grammar).rules
        /\ ParserOf(grammar).actions = ParserOf(-grammar).actions
    /\ \A n \in DOMAIN history[2] :
        history[2][n].source = history[1][1].source =>
            /\ history[2][n].outcome.status = history[1][1].outcome.status
            /\ history[2][n].outcome.value = history[1][1].outcome.value
            /\ history[2][n].outcome.index = history[1][1].outcome.index
            /\ history[2][n].outcome.path = history[1][1].outcome.path

\* The restored parser of a grammar of two rules has raised a ParseFailure
\* with a rule path.
C21_Witness ==
    /\ grammar < 0
    /\ Len(ParserOf(grammar).rules) = 2
    /\ history[2] # <<>>
    /\ history[2][1].source = history[1][1].source
    /\ history[2][1].outcome.status = "ParseFailure"
    /\ history[2][1].outcome.path # <<>>

\* ------------------------------------------------------------------------
\* C22: seed and grow, failing iteration.  When an iteration of the rule
\* body of a Reference fails recoverably, the Reference returns the match
\* it has stored for its position and name if it has stored one, and passes
\* a recoverable failure on only if it has stored none.
\* ------------------------------------------------------------------------

C22_FailingIteration ==
    [][\A t \in Threads :
          (/\ Active(t, "Reference")
           /\ Top(t).i >= 1
           /\ ret[t].kind = "MatchFailure"
           /\ stack'[t] # stack[t])
          => IF Top(t).match.kind = "Match"
                 THEN ret'[t] = Top(t).match
                 ELSE ret'[t].kind = "MatchFailure"]_vars

\* ------------------------------------------------------------------------
\* C23: sentinel visibility.  At every point of a parse, if the memo holds
\* the None sentinel for (at, name), an invocation of Reference(name) at at
\* that has inserted it is active on the call stack: once that invocation
\* has returned or raised, the memo holds no sentinel for (at, name).
\* ------------------------------------------------------------------------

C23_SentinelVisible ==
    \A t \in Threads :
        status[t] = "running" =>
            \A key \in DOMAIN memo[MemoOf(t)] :
                memo[MemoOf(t)][key].kind = "None" =>
                    \E i \in DOMAIN stack[t] :
                        /\ stack[t][i].clause = Reference(key[2])
                        /\ stack[t][i].at = key[1]
                        /\ stack[t][i].i >= 1

\* ------------------------------------------------------------------------
\* C24: seed and grow terminates.  For a Reference that iterates its rule
\* body at position at, the best end starts at at - 1 and is the end of the
\* match stored in the memo for (at, name) from then on; a body result is
\* stored iff its end exceeds the best end, so a stored match is replaced
\* only by a match that ends later, never by the sentinel; and the body is
\* evaluated at most |input| - at + 2 times.
\* ------------------------------------------------------------------------

\* The frames of caller t that iterate the body of a rule.
Growing(t) ==
    {i \in DOMAIN stack[t] :
        stack[t][i].clause.type = "Reference" /\ stack[t][i].i >= 1}

C24_GrowLoop ==
    \A t \in Threads : \A i \in Growing(t) :
        LET f == stack[t][i]
            key == MemoKey(f.at, f.clause.name)
        IN  /\ key \in DOMAIN memo[MemoOf(t)]
            /\ memo[MemoOf(t)][key] = f.match
            /\ f.old_end = IF f.match.kind = "None" THEN f.at - 1
                           ELSE MatchEnd(f.match)
            /\ f.match.kind = "Match" => f.match.at = f.at
            /\ f.i <= Len(source[t]) - f.at + 2

C24_Stored ==
    \A t \in Threads :
        (status[t] = "running" /\ status'[t] = "running") =>
            /\ \A key \in DOMAIN memo[MemoOf(t)] :
                /\ key \in DOMAIN memo'[MemoOf(t)]
                /\ memo[MemoOf(t)][key].kind = "Match" =>
                    /\ memo'[MemoOf(t)][key].kind = "Match"
                    /\ \/ memo'[MemoOf(t)][key] = memo[MemoOf(t)][key]
                       \/ MatchEnd(memo'[MemoOf(t)][key]) > MatchEnd(memo[MemoOf(t)][key])
            /\ (/\ Active(t, "Reference")
                /\ Top(t).i >= 1
                /\ ret[t].kind = "Match"
                /\ stack'[t] # stack[t]) =>
                    LET key == MemoKey(Top(t).at, Top(t).clause.name)
                    IN  IF MatchEnd(ret[t]) > Top(t).old_end
                            THEN memo'[MemoOf(t)][key] = ret[t]
                            ELSE memo'[MemoOf(t)] = memo[MemoOf(t)]

C24_Terminates == []C24_GrowLoop /\ [][C24_Stored]_vars

\* A first match of length zero is stored, and the iteration after it, the
\* last the bound allows, has returned a match that does not advance.
C24_Witness ==
    \E t \in Threads :
        /\ Active(t, "Reference")
        /\ Top(t).match.kind = "Match"
        /\ Top(t).match.length = 0
        /\ Top(t).i = Len(source[t]) - Top(t).at + 2
        /\ ret[t].kind = "Match"

\* ------------------------------------------------------------------------
\* C25: Repeat terminates.  Repeat(c) called at position at requires a first
\* match of c, whose failure propagates; it matches c again at the current
\* end only while the start of the previous iteration < current end <
\* |input|, and stops at the first recoverable failure of c.
\* ------------------------------------------------------------------------

\* The position the Repeat closure of frame f was called at: the loop
\* assigns to at, the first match keeps the position.
RepeatAt(f) == IF f.i <= 1 THEN f.at ELSE f.match.at

PyMax(a, b) == IF a >= b THEN a ELSE b

\* As stated: at most |input| - at matches of c.  Violated by a Repeat
\* called at the end of the input whose clause matches there.
C25_ChildMatches ==
    \A t \in Threads :
        (Active(t, "Repeat") /\ ret[t].kind = "Match") =>
            Top(t).i <= Len(source[t]) - RepeatAt(Top(t))

\* The matches of c made by every Repeat closure: one at least, one for
\* every element from at to the end of the input at most.
C25_Bounded ==
    \A t \in Threads : \A i \in DOMAIN stack[t] :
        stack[t][i].clause.type = "Repeat" =>
            stack[t][i].i <= PyMax(1, Len(source[t]) - RepeatAt(stack[t][i]))

\* The step of a Repeat closure that c has returned to.
C25_Loop ==
    \A t \in Threads :
        (Active(t, "Repeat") /\ Top(t).i >= 1 /\ stack'[t] # stack[t]) =>
            LET f == Top(t)
                r == ret[t]
                match == IF f.i = 1 THEN r ELSE MatchAdd(f.match, r)
                returns == /\ Len(stack'[t]) = Len(stack[t]) - 1
                calls == /\ Len(stack'[t]) = Len(stack[t]) + 1
                         /\ stack'[t][Len(stack'[t])] = Frame(f.clause.sub_clause, MatchEnd(match))
                         /\ stack'[t][Len(stack[t])].i = f.i + 1
            IN  IF r.kind = "Match"
                    THEN IF f.at < MatchEnd(match) /\ MatchEnd(match) < Len(source[t])
                             THEN calls
                             ELSE returns /\ ret'[t] = match
                ELSE IF f.i = 1 THEN returns /\ ret'[t] = r
                ELSE IF r.kind = "MatchFailure" THEN returns /\ ret'[t] = f.match
                ELSE returns /\ ret'[t] = r

C25_RepeatTerminates == []C25_Bounded /\ [][C25_Loop]_vars

\* A first match of length zero before the end of the input has come back
\* to a Repeat.
C25_Witness ==
    \E t \in Threads :
        /\ Active(t, "Repeat")
        /\ Top(t).i = 1
        /\ ret[t].kind = "Match"
        /\ ret[t].length = 0
        /\ Top(t).at < Len(source[t])

\* ------------------------------------------------------------------------
\* C26: Not(c) at position at returns a match at at of length 0 without
\* results and captures iff c fails recoverably at at; if c matches, Not
\* raises a recoverable failure at at that carries the Not clause; a fatal
\* failure of c leaves Not unchanged.
\* ------------------------------------------------------------------------
C26_NotStep ==
    \A t \in Threads :
        (Active(t, "Not") /\ Top(t).i = 1 /\ stack'[t] # stack[t]) =>
            LET f == Top(t)
                r == ret[t]
            IN  /\ stack'[t] = SubSeq(stack[t], 1, Len(stack[t]) - 1)
                /\ ret'[t].kind = "Match" <=> r.kind = "MatchFailure"
                /\ ret'[t].kind = "Match" => ret'[t] = Match(f.at, 0, <<>>, <<>>)
                /\ r.kind = "Match" => ret'[t] = MatchFailure(f.at, f.clause, None)
                /\ r.kind = "FatalMatchFailure" => ret'[t] = r

C26_Not == [][C26_NotStep]_vars

\* A fatal failure has come back to the closure of a Not.
C26_Witness ==
    \E t \in Threads :
        /\ Active(t, "Not")
        /\ Top(t).i = 1
        /\ ret[t].kind = "FatalMatchFailure"

\* ------------------------------------------------------------------------
\* C27: ordered choice.  Choice(c1..cn) at position at calls its
\* alternatives from left to right, each at at, and returns or raises what
\* the first alternative that does not fail recoverably returns or raises,
\* without calling a later one; if every alternative fails recoverably it
\* raises a recoverable failure at at, the start of the choice, whose
\* clause is the Choice.
\* ------------------------------------------------------------------------
C27_ChoiceStep ==
    \A t \in Threads :
        (Active(t, "Choice") /\ stack'[t] # stack[t]) =>
            LET f == Top(t)
                r == ret[t]
                subs == f.clause.sub_clauses
                returns == stack'[t] = SubSeq(stack[t], 1, Len(stack[t]) - 1)
                calls(n) == /\ Len(stack'[t]) = Len(stack[t]) + 1
                            /\ stack'[t][Len(stack'[t])] = Frame(subs[n], f.at)
                            /\ stack'[t][Len(stack[t])].i = n
                            /\ stack'[t][Len(stack[t])].at = f.at
            IN  IF f.i = 0 THEN calls(1)
                ELSE IF r.kind # "MatchFailure" THEN returns /\ ret'[t] = r
                ELSE IF f.i < Len(subs) THEN calls(f.i + 1)
                ELSE /\ returns
                     /\ ret'[t] = MatchFailure(f.at, f.clause, None)

C27_OrderedChoice == [][C27_ChoiceStep]_vars

\* The last alternative of a Choice has failed recoverably at a position
\* past the start of the choice.
C27_Witness ==
    \E t \in Threads :
        /\ Active(t, "Choice")
        /\ Top(t).i = Len(Top(t).clause.sub_clauses)
        /\ ret[t].kind = "MatchFailure"
        /\ ret[t].at > Top(t).at

\* ------------------------------------------------------------------------
\* C28: matches are well-formed.  Every matcher is called at a position at
\* with 0 <= at <= |input|, and a Match m it returns, computed or taken
\* from the memo, has m.at = at and at <= m.end <= |input|; so Sequence,
\* Entail and Repeat add adjacent matches only and the assertion of
\* Match.__add__ never fails.
\* ------------------------------------------------------------------------

\* The position the matcher that has just returned to caller t was called
\* at: by the closure on top of the stack, or by Parser.__call__ at 0.
CalledAt(t) ==
    IF stack[t] = <<>> THEN 0
    ELSE LET f == Top(t)
         IN  IF f.clause.type \in {"Sequence", "Entail"} /\ f.i > 1
                 THEN MatchEnd(f.match)
                 ELSE f.at

WellFormed(m, at, of) ==
    /\ m.at = at
    /\ m.length >= 0
    /\ MatchEnd(m) <= Len(of)

C28_WellFormed ==
    \A t \in Threads :
        status[t] = "running" =>
            /\ \A i \in DOMAIN stack[t] : stack[t][i].at \in 0..Len(source[t])
            /\ ret[t].kind = "Match" => WellFormed(ret[t], CalledAt(t), source[t])
            /\ ret[t] # PyError("AssertionError")
            /\ \A i \in DOMAIN stack[t] :
                   (/\ stack[t][i].clause.type \in {"Sequence", "Entail", "Repeat"}
                    /\ stack[t][i].i > 1
                    /\ i = Len(stack[t])
                    /\ ret[t].kind = "Match") => Adjacent(stack[t][i].match, ret[t])
            /\ \A key \in DOMAIN memo[MemoOf(t)] :
                   memo[MemoOf(t)][key].kind = "Match" =>
                       WellFormed(memo[MemoOf(t)][key], key[1], source[t])

\* A match taken from or grown in the memo comes back to a Sequence that
\* adds it to the matches before it.
C28_Witness ==
    \E t \in Threads :
        /\ Active(t, "Sequence")
        /\ Top(t).i > 1
        /\ Top(t).clause.sub_clauses[Top(t).i].type = "Reference"
        /\ ret[t].kind = "Match"
        /\ ret[t].length > 0
        /\ ret[t].at > 0

\* ------------------------------------------------------------------------
\* C29: repeated evaluation of a rule body.  A Reference(name) at at whose
\* key is not in the memo evaluates the rule body once and once more after
\* every match it stores, so a Reference that returns a match from its loop
\* has stored k >= 1 growing matches and evaluated the body k + 1 times; the
\* match of the last evaluation does not advance and is discarded, also
\* when the rule is not left-recursive and the body is a Transform whose
\* action has run in every evaluation.  A Reference whose key is in the
\* memo returns without evaluating the body.
\* ------------------------------------------------------------------------

\* The closure of a Reference calls the matcher of its rule: evaluation
\* number n of the body.
Evaluates(t, n) ==
    LET f == Top(t)
    IN  /\ Len(stack'[t]) = Len(stack[t]) + 1
        /\ stack'[t][Len(stack'[t])] = Frame(match_rules(ParserRules)[f.clause.name], f.at)
        /\ stack'[t][Len(stack[t])].i = n

C29_ReferenceStep ==
    \A t \in Threads :
        (Active(t, "Reference") /\ stack'[t] # stack[t]) =>
            LET f == Top(t)
                r == ret[t]
                m == memo[MemoOf(t)]
                key == <<f.at, f.clause.name>>
                returns == stack'[t] = SubSeq(stack[t], 1, Len(stack[t]) - 1)
            IN  IF f.i = 0 THEN
                    IF key \in DOMAIN m
                        THEN /\ returns
                             /\ memo' = memo
                             /\ m[key].kind = "Match" => ret'[t] = m[key]
                             /\ m[key].kind = "None" => ret'[t].kind = "MatchFailure"
                        ELSE /\ f.clause.name \in DOMAIN match_rules(ParserRules) => Evaluates(t, 1)
                             /\ memo'[MemoOf(t)][key] = None
                ELSE IF r.kind # "Match" THEN returns /\ memo' = memo
                ELSE IF MatchEnd(r) > f.old_end
                    THEN /\ Evaluates(t, f.i + 1)
                         /\ memo'[MemoOf(t)][key] = r
                         /\ stack'[t][Len(stack[t])].match = r
                ELSE /\ returns
                     /\ memo' = memo
                     /\ f.i >= 2
                     /\ f.match.kind = "Match"
                     /\ m[key] = f.match
                     /\ ret'[t] = f.match

\* The matches stored by a Reference in its loop: one less than the
\* evaluations of the body it has started.
C29_Stored ==
    \A t \in Threads : \A i \in Growing(t) :
        /\ stack[t][i].i = 1 <=> stack[t][i].match.kind = "None"
        /\ stack[t][i].i >= 2 <=> stack[t][i].match.kind = "Match"

C29_BodyEvaluations == []C29_Stored /\ [][C29_ReferenceStep]_vars

\* The second evaluation of a rule body that is a Transform has run the
\* action again for the same match as the first; it is about to be
\* discarded.
C29_Witness ==
    \E t \in Threads :
        /\ Active(t, "Reference")
        /\ Top(t).i = 2
        /\ match_rules(ParserRules)[Top(t).clause.name].type = "Transform"
        /\ ret[t].kind = "Match"
        /\ ret[t] = Top(t).match

\* ------------------------------------------------------------------------
\* C30: duplicate capture names.  When the match handed to a Transform
\* carries several captures of one name, the action is called as it would
\* be for the last capture of every name alone, the earlier ones are
\* dropped; the grammar is built and the parse goes on without an error on
\* their account.
\* ------------------------------------------------------------------------

\* The captures without those that a later capture of the same name follows.
RECURSIVE LastCaptures(_)
LastCaptures(captures) ==
    IF captures = <<>> THEN <<>>
    ELSE IF \E j \in 2..Len(captures) : captures[j][1] = captures[1][1]
        THEN LastCaptures(Tail(captures))
        ELSE <<captures[1]>> \o LastCaptures(Tail(captures))

Duplicates(captures) ==
    \E i, j \in DOMAIN captures : i < j /\ captures[i][1] = captures[j][1]

C30_TransformStep ==
    \A t \in Threads :
        (/\ Active(t, "Transform")
         /\ Top(t).i = 1
         /\ ret[t].kind = "Match"
         /\ Duplicates(ret[t].captures)
         /\ stack'[t] # stack[t]) =>
            LET f == Top(t)
                r == ret[t]
                last == LastCaptures(r.captures)
            IN  /\ parser = "built"
                /\ ret'[t] = TransformResult(f.at, f.clause, [r EXCEPT !.captures = last])
                /\ f.clause.action.expr = "name" =>
                    /\ ret'[t].kind = "Match"
                    /\ \E i \in DOMAIN r.captures :
                        /\ r.captures[i][1] = f.clause.action.names[1]
                        /\ \A j \in DOMAIN r.captures :
                               r.captures[j][1] = r.captures[i][1] => j <= i
                        /\ ret'[t].results = <<r.captures[i][2]>>

C30_LastCapture == [][C30_TransformStep]_vars

\* A Transform has received the captures of a Repeat that matched more
\* than once: two captures of one name with different values.
C30_Witness ==
    \E t \in Threads :
        /\ Active(t, "Transform")
        /\ Top(t).i = 1
        /\ ret[t].kind = "Match"
        /\ Top(t).clause.sub_clause.type = "Sequence"
        /\ Top(t).clause.sub_clause.sub_clauses[2].type = "Repeat"
        /\ \E i, j \in DOMAIN ret[t].captures :
            /\ i < j
            /\ ret[t].captures[i][1] = ret[t].captures[j][1]
            /\ ret[t].captures[i][2] # ret[t].captures[j][2]

====
